---------------------------- MODULE Spec2Model ----------------------------
(***************************************************************************)
(* Model of gruut's TextProcessor (src/gruut/text_processor.py): the SSML  *)
(* tree builder, the split / transform / verbalize passes, the sentence    *)
(* breaker and the sentences() flattener.                                  *)
(*                                                                         *)
(* Strings are sequences of one-character strings.  The graph is the       *)
(* networkx DiGraph of the source: nodes maps a key to the node's data,    *)
(* edges maps a key to its out-edges in insertion order.                   *)
(***************************************************************************)
EXTENDS Integers, Sequences, FiniteSets, TLC

VARIABLES
    profile,        \* which class of inputs this run draws from
    cfg,            \* TextProcessorSettings (shared by all languages)
    xml,            \* the input document as a sequence of XML tokens
    open,           \* the author's stack of open elements while xml is written
    input,          \* the plain text handed to process() when ssml = false
    events,         \* remaining output of text_and_elements(root_element)
    pc,             \* position of process() / sentences()
    nodes,          \* graph.nodes[key][DATA_PROP]
    edges,          \* graph out-edges, in order
    root,
    last_paragraph,
    last_sentence,
    last_speak,
    voice_stack,
    say_as_stack,
    lang_stack,
    current_lang,
    in_word,
    is_last_word,
    word_role,
    last_alias,
    skip_elements,
    built,          \* history: the graph as the tree builder left it
    before,         \* history: the graph before the pass that ran last
    flags,          \* arguments of the last sentences() call
    out,            \* the Sentences yielded by the last sentences() call
    args,           \* the arguments pos and phonemize of process()
    calls,          \* history: the calls made to the settings' callbacks
    self_settings,  \* self.settings: language -> TextProcessorSettings object
    warnings        \* history: the languages _LOGGER.warning was called for

vars == << profile, cfg, xml, open, input, events, pc, nodes, edges, root,
           last_paragraph, last_sentence, last_speak, voice_stack,
           say_as_stack, lang_stack, current_lang, in_word, is_last_word,
           word_role, last_alias, skip_elements, built, before, flags, out,
           args, calls, self_settings, warnings >>

None == "None"

\* a node variable that is None
NoNode == -1

(***************************************************************************)
(* Bounds of the model.                                                    *)
(***************************************************************************)
MaxXml == 6

\* tokens of a document with <say-as>
MaxSayAsXml == 5

\* tokens of a document with lang, voice and say-as scopes, or with <sub>
\* and <metadata>
MaxScopeXml == 7

\* tokens of a document whose words are tagged and phonemized
MaxEnrichXml == 6

\* calls of get_settings by the owner of a processor
MaxAsked == 3
MaxTextLen == 4

(***************************************************************************)
(* Strings                                                                 *)
(***************************************************************************)
IsWs(c) == c = " "

IsDigit(c) == c \in {"1", "2"}

IsAlpha(c) == c \in {"a", "b", "T", "N"}

RECURSIVE lstrip(_)
lstrip(s) == IF s # <<>> /\ IsWs(Head(s)) THEN lstrip(Tail(s)) ELSE s

RECURSIVE rstrip(_)
rstrip(s) ==
    IF s # <<>> /\ IsWs(s[Len(s)]) THEN rstrip(SubSeq(s, 1, Len(s) - 1)) ELSE s

strip(s) == rstrip(lstrip(s))

\* leading and trailing whitespace of a string
get_whitespace(s) ==
    LET l == Len(s) - Len(lstrip(s))
        r == Len(s) - Len(rstrip(s))
    IN  IF l = Len(s) THEN << s, <<>> >>
        ELSE << SubSeq(s, 1, l), SubSeq(s, Len(s) - r + 1, Len(s)) >>

\* length of the longest prefix of s made of whitespace (ws = TRUE) or of
\* non-whitespace (ws = FALSE)
RECURSIVE Run(_, _)
Run(s, ws) ==
    IF s # <<>> /\ (IsWs(Head(s)) <=> ws) THEN 1 + Run(Tail(s), ws) ELSE 0

Drop(s, n) == SubSeq(s, n + 1, Len(s))

Take(s, n) == SubSeq(s, 1, n)

\* grouper(settings.split_pattern.split(text), 2) with the default split
\* pattern (\s+): pairs (part, separator), a missing separator being empty
RECURSIVE grouper_split(_)
grouper_split(s) ==
    LET p == Run(s, FALSE)
        rest == Drop(s, p)
        w == Run(rest, TRUE)
    IN  IF rest = <<>> THEN << << Take(s, p), <<>> >> >>
        ELSE << << Take(s, p), Take(rest, w) >> >> \o grouper_split(Drop(rest, w))

\* settings.normalize_whitespace: runs of whitespace become one join_str,
\* leading and trailing whitespace is dropped
RECURSIVE normalize_whitespace(_)
normalize_whitespace(s) ==
    LET t == strip(s)
        p == Run(t, FALSE)
        rest == Drop(t, p)
    IN  IF rest = <<>> THEN t
        ELSE Take(t, p) \o <<" ">> \o normalize_whitespace(rest)

RECURSIVE Concat(_)
Concat(ss) == IF ss = <<>> THEN <<>> ELSE Head(ss) \o Concat(Tail(ss))

\* first index i of s with s[i] in glyphs and Ok(i), or 0
RECURSIVE FindFrom(_, _, _, _)
FindFrom(s, i, glyphs, needWsAfter) ==
    IF i > Len(s) THEN 0
    ELSE IF s[i] \in glyphs /\ (~needWsAfter \/ i = Len(s) \/ IsWs(s[i + 1]))
         THEN i
         ELSE FindFrom(s, i + 1, glyphs, needWsAfter)

\* pattern.split(text) for a break pattern ((?:g1|g2..)(?:\s+|$)) (major) or
\* ((?:g1|g2..)\s*) (minor): parts[0] and parts[1], or no match
break_split(s, glyphs, major) ==
    LET i == FindFrom(s, 1, glyphs, major)
        w == IF i = 0 THEN 0 ELSE Run(Drop(s, i), TRUE)
    IN  IF i = 0 THEN [matched |-> FALSE, word_part |-> s, break_part |-> <<>>]
        ELSE [matched |-> TRUE,
              word_part |-> Take(s, i - 1),
              break_part |-> SubSeq(s, i, i + w)]


(***************************************************************************)
(* Settings.  cfg is the settings the constructor makes from its keyword   *)
(* arguments, cfg.given the settings it is given per language; a set of    *)
(* glyphs that is empty is a pattern that is None.                         *)
(***************************************************************************)
default_lang == "en_US"

join_str == <<" ">>

\* TextProcessorSettings(lang=lang, **self.default_settings_kwargs)
TextProcessorSettings(lang) == [cfg EXCEPT !.lang = lang]

\* A settings object is named by the key it entered self.settings under: a
\* key of the mapping given to the constructor, or the language it was
\* created for.
settings_object(name) ==
    IF name \in DOMAIN cfg.given THEN cfg.given[name]
    ELSE TextProcessorSettings(name)

\* gruut.lang.resolve_lang(lang): the language an alias stands for
resolve_lang(lang) == IF lang = "de" THEN "de_DE" ELSE lang

\* get_settings_effect without "self.settings[lang] = lang_settings"
get_settings_effect_uncached(c, lang_or_none) ==
    LET lang == IF lang_or_none = "" THEN default_lang ELSE lang_or_none
        resolved_lang == resolve_lang(lang)
    IN  IF lang \in DOMAIN c.settings THEN c
        ELSE IF resolved_lang \in DOMAIN c.settings
        THEN [c EXCEPT !.settings = (lang :> c.settings[resolved_lang]) @@ @]
        ELSE [c EXCEPT !.warnings = Append(c.warnings, lang)]

\* what get_settings(lang) leaves behind: c is [settings, warnings], the
\* mapping self.settings (key to object) and the warnings logged so far
get_settings_effect(c, lang_or_none) ==
    LET lang == IF lang_or_none = "" THEN default_lang ELSE lang_or_none
        resolved_lang == resolve_lang(lang)
    IN  IF lang \in DOMAIN c.settings THEN c
        ELSE IF resolved_lang \in DOMAIN c.settings
        THEN [c EXCEPT !.settings = (lang :> c.settings[resolved_lang]) @@ @]
        ELSE [settings |-> (lang :> lang) @@ c.settings,
              warnings |-> Append(c.warnings, lang)]

\* the name of the object that get_settings(lang) returns
get_settings_name(c, lang_or_none) ==
    LET lang == IF lang_or_none = "" THEN default_lang ELSE lang_or_none
        resolved_lang == resolve_lang(lang)
    IN  IF lang \in DOMAIN c.settings THEN c.settings[lang]
        ELSE IF resolved_lang \in DOMAIN c.settings
        THEN c.settings[resolved_lang]
        ELSE lang

\* self.settings and the log, as one value
Cache == [settings |-> self_settings, warnings |-> warnings]

\* the object that get_settings(lang) returns
get_settings(lang) == settings_object(get_settings_name(Cache, lang))

(***************************************************************************)
(* Nodes (gruut.const).  kind is the node's class; a field that the class  *)
(* does not have keeps its default.                                        *)
(***************************************************************************)
DefaultNode ==
    [node |-> -1, kind |-> "", implicit |-> FALSE, element |-> FALSE,
     lang |-> "", voice |-> "", text |-> <<>>, text_with_ws |-> <<>>,
     interpret_as |-> "", format |-> "", role |-> "",
     number |-> None, date |-> None,
     currency_symbol |-> None, currency_name |-> None,
     break_type |-> "", time |-> "", pos |-> None, phonemes |-> None,
     \* history, not a field of the source: for a node born of an XML token,
     \* the place in xml of the <p> it stands for or was read in (0: none)
     origin |-> 0,
     \* history: for a Word born of a text chunk, the place in xml of the text
     src |-> 0]

\* node_class(node=len(graph), **kwargs): kwargs overrides the defaults
NewNode(key, kind, kwargs) ==
    [f \in DOMAIN DefaultNode |->
        IF f = "node" THEN key
        ELSE IF f = "kind" THEN kind
        ELSE IF f \in DOMAIN kwargs THEN kwargs[f]
        ELSE DefaultNode[f]]

SeqSet(q) == {q[i] : i \in 1..Len(q)}

IsWord(n) == n.kind = "WordNode"

IsSentence(n) == n.kind = "SentenceNode"

(***************************************************************************)
(* Graph                                                                   *)
(***************************************************************************)
\* len(graph)
GraphLen(N) == Cardinality(DOMAIN N)

\* graph.add_node(key, data=d)
add_node(N, key, d) == IF key \in DOMAIN N THEN [N EXCEPT ![key] = d] ELSE N @@ (key :> d)

\* out-edge lists after graph.add_node(key): a new key has no out-edges
add_node_edges(E, key) == IF key \in DOMAIN E THEN E ELSE E @@ (key :> <<>>)

\* graph.add_edge(u, v): a repeated edge keeps its place
add_edge(E, u, v) ==
    IF \E i \in 1..Len(E[u]) : E[u][i] = v THEN E
    ELSE [E EXCEPT ![u] = Append(@, v)]

\* graph.predecessors(v), as a set
predecessors(E, v) == {u \in DOMAIN E : \E i \in 1..Len(E[u]) : E[u][i] = v}

\* next(iter(graph.predecessors(v)))
parent_of(E, v) == CHOOSE u \in predecessors(E, v) : TRUE

\* leaves(graph, node): the nodes of out-degree zero below key, in
\* depth-first edge order
RECURSIVE leaves(_, _)
RECURSIVE leaves_of_all(_, _)
leaves(E, key) == IF E[key] = <<>> THEN <<key>> ELSE leaves_of_all(E, E[key])

leaves_of_all(E, keys) ==
    IF keys = <<>> THEN <<>>
    ELSE leaves(E, Head(keys)) \o leaves_of_all(E, Tail(keys))

\* nx.dfs_preorder_nodes(graph, key)
RECURSIVE dfs_preorder_nodes(_, _)
RECURSIVE dfs_preorder_all(_, _)
dfs_preorder_nodes(E, key) == <<key>> \o dfs_preorder_all(E, E[key])

dfs_preorder_all(E, keys) ==
    IF keys = <<>> THEN <<>>
    ELSE dfs_preorder_nodes(E, Head(keys)) \o dfs_preorder_all(E, Tail(keys))

\* the graph after attaching one new node per entry of kids, in order, below
\* key; each entry is <<node class, kwargs>>
RECURSIVE attach(_, _, _)
attach(g, key, kids) ==
    IF kids = <<>> THEN g
    ELSE LET k == GraphLen(g.nodes)
             n == NewNode(k, Head(kids)[1], Head(kids)[2])
         IN  attach([nodes |-> add_node(g.nodes, k, n),
                     edges |-> add_edge(add_node_edges(g.edges, k), key, k)],
                    key, Tail(kids))

\* pipeline_split(split_func, graph, parent_node): every leaf of the
\* snapshot gets the nodes that split_func yields for it as children
RECURSIVE split_leaves(_, _, _)
split_leaves(split_func(_), g, ls) ==
    IF ls = <<>> THEN g
    ELSE split_leaves(split_func,
                      attach(g, Head(ls), split_func(g.nodes[Head(ls)])),
                      Tail(ls))

pipeline_split(split_func(_), g, r) == split_leaves(split_func, g, leaves(g.edges, r))

\* pipeline_transform(transform_func, graph, parent_node): transform_func
\* is called with the graph and each leaf of the snapshot, in order
RECURSIVE transform_leaves(_, _, _)
transform_leaves(transform_func(_, _), g, ls) ==
    IF ls = <<>> THEN g
    ELSE transform_leaves(transform_func, transform_func(g, Head(ls)), Tail(ls))

pipeline_transform(transform_func(_, _), g, r) ==
    transform_leaves(transform_func, g, leaves(g.edges, r))

(***************************************************************************)
(* Split passes.  Each split function maps a leaf to the sequence of       *)
(* <<node class, kwargs>> it yields.                                       *)
(***************************************************************************)
WordKid(t, lang) ==
    << "WordNode",
       [text |-> strip(t), text_with_ws |-> t, implicit |-> TRUE, lang |-> lang] >>

PunctKid(t, lang) ==
    << "PunctuationWordNode",
       [text |-> strip(t), text_with_ws |-> t, implicit |-> TRUE, lang |-> lang] >>

BreakKid(break_type, t, lang) ==
    << "BreakWordNode",
       [break_type |-> break_type, text |-> strip(t), text_with_ws |-> t,
        implicit |-> TRUE, lang |-> lang] >>

\* the "Tokenize new text" loop of _split_replacements / _split_abbreviations
RECURSIVE tokenize_groups(_, _, _)
tokenize_groups(groups, settings, lang) ==
    IF groups = <<>> THEN <<>>
    ELSE LET part_str == IF settings.keep_whitespace
                         THEN Head(groups)[1] \o Head(groups)[2]
                         ELSE Head(groups)[1]
             more == tokenize_groups(Tail(groups), settings, lang)
         IN  IF strip(part_str) = <<>> THEN more
             ELSE << << "WordNode",
                        [text |-> normalize_whitespace(part_str),
                         text_with_ws |-> part_str,
                         implicit |-> TRUE, lang |-> lang] >> >> \o more

\* pattern.subn(template, text) for a pattern that is one literal character
RECURSIVE subn(_, _, _)
subn(pattern, template, s) ==
    IF s = <<>> THEN [text |-> <<>>, num_subs |-> 0]
    ELSE LET r == subn(pattern, template, Tail(s))
         IN  IF Head(s) = pattern
             THEN [text |-> template \o r.text, num_subs |-> r.num_subs + 1]
             ELSE [text |-> <<Head(s)>> \o r.text, num_subs |-> r.num_subs]

RECURSIVE apply_replacements(_, _, _)
apply_replacements(replacements, new_text, matched) ==
    IF replacements = <<>> THEN [new_text |-> new_text, matched |-> matched]
    ELSE LET r == subn(Head(replacements)[1], Head(replacements)[2], new_text)
         IN  apply_replacements(Tail(replacements), r.text,
                                matched \/ r.num_subs > 0)

replacements_of(word) ==
    LET settings == get_settings(word.lang)
        r == apply_replacements(settings.replacements, word.text_with_ws, FALSE)
    IN  IF settings.replacements = <<>> THEN <<>>
        ELSE IF ~r.matched THEN <<>>
        ELSE tokenize_groups(grouper_split(r.new_text), settings, word.lang)

split_replacements(node) ==
    IF ~IsWord(node) THEN <<>>
    ELSE IF node.interpret_as # "" THEN <<>>
    ELSE replacements_of(node)

\* the begin-punctuation loop: the peeled punctuation strings and the rest
RECURSIVE peel_begin(_, _)
peel_begin(word_text, glyphs) ==
    IF Len(word_text) >= 2 /\ Head(word_text) \in glyphs
    THEN LET r == peel_begin(Tail(word_text), glyphs)
         IN  [puncts |-> << <<Head(word_text)>> >> \o r.puncts, rest |-> r.rest]
    ELSE [puncts |-> <<>>, rest |-> word_text]

\* the end-punctuation loop: end_punctuations in the order they are
\* appended (last character first) and the rest
RECURSIVE peel_end(_, _)
peel_end(word_text, glyphs) ==
    IF Len(word_text) >= 2 /\ word_text[Len(word_text)] \in glyphs
    THEN LET r == peel_end(Take(word_text, Len(word_text) - 1), glyphs)
         IN  [puncts |-> << <<word_text[Len(word_text)]>> >> \o r.puncts,
              rest |-> r.rest]
    ELSE [puncts |-> <<>>, rest |-> word_text]

Reversed(s) == [i \in 1..Len(s) |-> s[Len(s) + 1 - i]]

punctuations_of(word) ==
    LET settings == get_settings(word.lang)
        ws == get_whitespace(word.text_with_ws)
        first_ws == ws[1]
        last_ws == ws[2]
        b == peel_begin(word.text, settings.begin_punctuations)
        e == peel_end(b.rest, settings.end_punctuations)
        has_punctuation == b.puncts # <<>> \/ e.puncts # <<>>
        word_text == IF settings.keep_whitespace /\ e.puncts = <<>>
                     THEN e.rest \o last_ws ELSE e.rest
        ends == Reversed(e.puncts)
    IN  IF settings.begin_punctuations = {} /\ settings.end_punctuations = {}
        THEN <<>>
        ELSE IF ~has_punctuation THEN <<>>
        ELSE [i \in 1..Len(b.puncts) |->
                PunctKid(IF i = 1 THEN first_ws \o b.puncts[i] ELSE b.puncts[i],
                         word.lang)]
             \o (IF word_text # <<>> THEN <<WordKid(word_text, word.lang)>>
                 ELSE <<>>)
             \o [i \in 1..Len(ends) |->
                   PunctKid(IF settings.keep_whitespace /\ i = Len(ends)
                            THEN ends[i] \o last_ws ELSE ends[i],
                            word.lang)]

split_punctuations(node) ==
    IF ~IsWord(node) THEN <<>>
    ELSE IF node.interpret_as # "" THEN <<>>
    ELSE punctuations_of(node)

major_breaks_of(word) ==
    LET settings == get_settings(word.lang)
        parts == break_split(word.text_with_ws, settings.major_breaks, TRUE)
    IN  IF settings.major_breaks = {} THEN <<>>
        ELSE IF ~parts.matched THEN <<>>
        ELSE IF strip(parts.word_part) # <<>>
             THEN << WordKid(parts.word_part, word.lang),
                     BreakKid("MAJOR", parts.break_part, word.lang) >>
             ELSE << BreakKid("MAJOR", parts.word_part \o parts.break_part,
                              word.lang) >>

\* split_major_breaks without the test "if word.interpret_as: return"
split_major_breaks_unlocked(node) ==
    IF ~IsWord(node) THEN <<>> ELSE major_breaks_of(node)

split_major_breaks(node) ==
    IF ~IsWord(node) THEN <<>>
    ELSE IF node.interpret_as # "" THEN <<>>
    ELSE major_breaks_of(node)

minor_breaks_of(word) ==
    LET settings == get_settings(word.lang)
        parts == break_split(word.text_with_ws, settings.minor_breaks, FALSE)
    IN  IF settings.minor_breaks = {} THEN <<>>
        ELSE IF ~parts.matched THEN <<>>
        ELSE << WordKid(parts.word_part, word.lang),
                BreakKid("MINOR", parts.break_part, word.lang) >>

split_minor_breaks(node) ==
    IF ~IsWord(node) THEN <<>>
    ELSE IF node.interpret_as # "" THEN <<>>
    ELSE minor_breaks_of(node)

IsPrefix(p, s) == Len(p) <= Len(s) /\ Take(s, Len(p)) = p

\* match.expand(template) of the first abbreviation whose compiled pattern
\* matches text_with_ws, if any.  A raw pattern ^abbr becomes
\* ^abbr(?P<break>..)?(?P<whitespace>\s*)$ when major breaks are configured
RECURSIVE expand_abbreviation(_, _, _)
expand_abbreviation(abbreviations, settings, s) ==
    IF abbreviations = <<>> THEN [matched |-> FALSE, text |-> <<>>]
    ELSE LET abbr == Head(abbreviations)[1]
             template == Head(abbreviations)[2]
             rest == Drop(s, Len(abbr))
             brk == IF rest # <<>> /\ Head(rest) \in settings.major_breaks
                    THEN <<Head(rest)>> ELSE <<>>
             whitespace == Drop(rest, Len(brk))
             matches == /\ IsPrefix(abbr, s)
                        /\ \/ settings.major_breaks = {}
                           \/ Run(whitespace, TRUE) = Len(whitespace)
         IN  IF matches
             THEN [matched |-> TRUE,
                   text |-> IF settings.major_breaks = {} THEN template
                            ELSE template \o brk \o whitespace]
             ELSE expand_abbreviation(Tail(abbreviations), settings, s)

abbreviations_of(word) ==
    LET settings == get_settings(word.lang)
        new_text == expand_abbreviation(settings.abbreviations, settings,
                                        word.text_with_ws)
    IN  IF settings.abbreviations = <<>> THEN <<>>
        ELSE IF ~new_text.matched THEN <<>>
        ELSE tokenize_groups(grouper_split(new_text.text), settings, word.lang)

split_abbreviations(node) ==
    IF ~IsWord(node) THEN <<>>
    ELSE IF node.interpret_as # "" THEN <<>>
    ELSE abbreviations_of(node)

\* settings.lookup_phonemes(text): the lexicon is a set of texts
in_lexicon(settings, text) == text \in settings.lexicon

\* the test suite's is_initialism: s.isalpha() and s.isupper()
is_initialism(text) == text # <<>> /\ \A i \in 1..Len(text) : text[i] = "T"

\* the "Preserve whitespace" loop shared by the passes that turn a Word
\* into parts joined by join_str
spaced_parts(parts, settings, first_ws, last_ws) ==
    [i \in 1..Len(parts) |->
        IF settings.keep_whitespace
        THEN (IF i = 1 THEN first_ws ELSE <<>>) \o parts[i]
             \o (IF i = Len(parts) THEN last_ws ELSE join_str)
        ELSE parts[i]]

initialism_of(word) ==
    LET settings == get_settings(word.lang)
        ws == get_whitespace(word.text_with_ws)
        \* split_initialism = list
        parts == [i \in 1..Len(word.text) |-> <<word.text[i]>>]
        texts == spaced_parts(parts, settings, ws[1], ws[2])
    IN  IF ~settings.initialisms THEN <<>>
        ELSE IF in_lexicon(settings, word.text) THEN <<>>
        ELSE IF ~is_initialism(word.text) THEN <<>>
        ELSE [i \in 1..Len(texts) |->
                << "WordNode",
                   [text |-> strip(texts[i]), text_with_ws |-> texts[i],
                    implicit |-> TRUE, lang |-> word.lang, role |-> "LETTER"] >>]

split_initialism(node) ==
    IF ~IsWord(node) THEN <<>>
    ELSE IF node.interpret_as # "" THEN <<>>
    ELSE initialism_of(node)

\* spell_out_of without the look-up in settings.spell_out_words
spell_out_of_unmapped(word) ==
    LET settings == get_settings(word.lang)
        ws == get_whitespace(word.text_with_ws)
        parts == [i \in 1..Len(word.text) |-> <<word.text[i]>>]
        texts == spaced_parts(parts, settings, ws[1], ws[2])
    IN  [i \in 1..Len(texts) |->
            << "WordNode",
               [text |-> strip(texts[i]), text_with_ws |-> texts[i],
                implicit |-> TRUE, lang |-> word.lang,
                role |-> IF IsAlpha(word.text[i]) THEN "LETTER" ELSE ""] >>]

\* the loop over the characters of the text; spell_out_words maps to words
\* that are not empty, so "if not word_text: continue" skips none
spell_out_of(word) ==
    LET settings == get_settings(word.lang)
        ws == get_whitespace(word.text_with_ws)
        parts == [i \in 1..Len(word.text) |->
                    IF word.text[i] \in DOMAIN settings.spell_out_words
                    THEN settings.spell_out_words[word.text[i]]
                    ELSE <<word.text[i]>>]
        texts == spaced_parts(parts, settings, ws[1], ws[2])
    IN  [i \in 1..Len(texts) |->
            << "WordNode",
               [text |-> strip(texts[i]), text_with_ws |-> texts[i],
                implicit |-> TRUE, lang |-> word.lang,
                role |-> IF word.text[i] \notin DOMAIN settings.spell_out_words
                            /\ IsAlpha(word.text[i])
                         THEN "LETTER" ELSE ""] >>]

split_spell_out(node) ==
    IF ~IsWord(node) THEN <<>>
    ELSE IF node.interpret_as # "spell-out" THEN <<>>
    ELSE spell_out_of(node)

\* settings.word_breaks_pattern.split(text)
RECURSIVE pattern_split(_, _)
pattern_split(s, glyphs) ==
    LET i == FindFrom(s, 1, glyphs, FALSE)
    IN  IF i = 0 THEN <<s>>
        ELSE <<Take(s, i - 1)>> \o pattern_split(Drop(s, i), glyphs)

\* word_breaks_of yielding the parts as breaks
word_breaks_of_as_breaks(word) ==
    LET settings == get_settings(word.lang)
        parts == pattern_split(word.text, settings.word_breaks)
        ws == get_whitespace(word.text_with_ws)
        texts == spaced_parts(parts, settings, ws[1], ws[2])
    IN  IF ~word.implicit THEN <<>>
        ELSE IF settings.word_breaks = {} THEN <<>>
        ELSE IF in_lexicon(settings, word.text) THEN <<>>
        ELSE IF Len(parts) < 2 THEN <<>>
        ELSE [i \in 1..Len(texts) |-> BreakKid("MINOR", texts[i], word.lang)]

word_breaks_of(word) ==
    LET settings == get_settings(word.lang)
        parts == pattern_split(word.text, settings.word_breaks)
        ws == get_whitespace(word.text_with_ws)
        texts == spaced_parts(parts, settings, ws[1], ws[2])
    IN  IF ~word.implicit THEN <<>>
        ELSE IF settings.word_breaks = {} THEN <<>>
        ELSE IF in_lexicon(settings, word.text) THEN <<>>
        ELSE IF Len(parts) < 2 THEN <<>>
        ELSE [i \in 1..Len(texts) |-> WordKid(texts[i], word.lang)]

break_words(node) ==
    IF ~IsWord(node) THEN <<>>
    ELSE IF node.interpret_as # "" THEN <<>>
    ELSE word_breaks_of(node)

\* a language's is_non_word: no letter and no digit in the text
is_non_word(text) == \A i \in 1..Len(text) : ~IsAlpha(text[i]) /\ ~IsDigit(text[i])

ignore_non_words_of(word) ==
    LET settings == get_settings(word.lang)
    IN  IF ~settings.non_words THEN <<>>
        ELSE IF is_non_word(word.text) THEN << <<"IgnoreNode", [implicit |-> FALSE]>> >>
        ELSE <<>>

split_ignore_non_words(node) ==
    IF ~IsWord(node) THEN <<>>
    ELSE IF node.interpret_as # "" THEN <<>>
    ELSE ignore_non_words_of(node)

(***************************************************************************)
(* External libraries (babel, dateparser, num2words), by what the passes   *)
(* use of them.                                                            *)
(***************************************************************************)
AllDigits(s) == s # <<>> /\ \A i \in 1..Len(s) : IsDigit(s[i])

has_digit(s) == \E i \in 1..Len(s) : IsDigit(s[i])

Without(s, c) == SelectSeq(s, LAMBDA x : x # c)

T_nan == <<"N", "a", "N">>

\* babel.numbers.parse_decimal(text, locale): None stands for ValueError.
\* "." is the decimal point of en_US and the group separator of de_DE.
\* The text goes to decimal.Decimal, which also reads its special values.
parse_decimal(text, locale) ==
    LET t == IF locale = "de_DE" THEN Without(text, ".") ELSE text
        parts == pattern_split(t, {"."})
    IN  IF AllDigits(t) THEN "int"
        ELSE IF t = T_nan THEN "nan"
        ELSE IF Len(parts) = 2 /\ AllDigits(parts[1]) /\ AllDigits(parts[2])
             THEN "frac"
        ELSE None

\* dateparser.parse(text, settings={"STRICT_PARSING": strict}): a date needs
\* day, month and year when strict, and two of them otherwise
parse_date(text, strict) ==
    LET parts == pattern_split(text, {"/", "."})
        numeric == \A i \in 1..Len(parts) : AllDigits(parts[i])
    IN  IF numeric /\ (Len(parts) = 3 \/ (~strict /\ Len(parts) = 2))
        THEN "date" ELSE None

W_one == <<"o", "n", "e">>

W_first == <<"f", "i", "r", "s", "t">>

W_point == <<"p", "o", "i", "n", "t">>

W_dollar == <<"d", "o", "l", "l", "a", "r">>

W_cents == <<"c", "e", "n", "t", "s">>

W_april == <<"A", "p", "r", "i", "l">>

W_ninety == <<"n", "i", "n", "e", "t", "y">>

W_uno == <<"u", "n", "o">>

W_eins == <<"e", "i", "n", "s">>

\* the cardinal of 1 in the language
one_in(lang) ==
    IF lang = "es_ES" THEN W_uno
    ELSE IF lang = "de_DE" THEN W_eins
    ELSE W_one

\* num2words(n, lang, to), after re.sub(r"\W", join_str, num_str).strip()
num2words(lang, num_has_frac, to) ==
    IF to = "ordinal" THEN W_first
    ELSE IF to = "year" THEN W_ninety \o join_str \o one_in(lang)
    ELSE IF num_has_frac
         THEN one_in(lang) \o join_str \o W_point \o join_str \o one_in(lang)
    ELSE one_in(lang)

(***************************************************************************)
(* Transform passes                                                        *)
(***************************************************************************)
\* number_of with interpret_as assigned before the parse
number_of_marked(word) ==
    LET settings == get_settings(word.lang)
        number == parse_decimal(word.text, settings.lang)
    IN  IF number # None
        THEN [word EXCEPT !.interpret_as = "number", !.number = number]
        ELSE [word EXCEPT !.interpret_as = "number"]

number_of(word) ==
    LET settings == get_settings(word.lang)
        number == parse_decimal(word.text, settings.lang)
    IN  IF number # None
        THEN [word EXCEPT !.interpret_as = "number", !.number = number]
        ELSE word

transform_number(g, key) ==
    LET word == g.nodes[key]
    IN  IF ~IsWord(word) THEN g
        ELSE IF word.interpret_as # "" /\ word.interpret_as # "number" THEN g
        ELSE [g EXCEPT !.nodes[key] = number_of(word)]

\* the loop over settings.currency_symbols: the Word after the first
\* symbol that prefixes the text and whose remainder parses
RECURSIVE parse_with_symbols(_, _, _)
parse_with_symbols(word, currency_symbols, settings) ==
    IF currency_symbols = <<>> THEN word
    ELSE LET currency_symbol == Head(currency_symbols)
             number == parse_decimal(Tail(word.text), settings.lang)
         IN  IF word.text # <<>> /\ Head(word.text) = currency_symbol
                /\ number # None
             THEN [word EXCEPT !.interpret_as = "currency",
                               !.currency_symbol = currency_symbol,
                               !.number = number]
             ELSE parse_with_symbols(word, Tail(currency_symbols), settings)

currency_of(word) ==
    LET settings == get_settings(word.lang)
        with_symbol == parse_with_symbols(word, settings.currency_symbols, settings)
        parsed == with_symbol # word
        number == parse_decimal(word.text, settings.lang)
    IN  IF ~has_digit(word.text) THEN word
        ELSE IF parsed THEN with_symbol
        ELSE IF word.interpret_as = "currency" /\ settings.default_currency # ""
                /\ number # None
             THEN [word EXCEPT !.interpret_as = "currency",
                               !.currency_name = settings.default_currency,
                               !.number = number]
        ELSE word

transform_currency(g, key) ==
    LET word == g.nodes[key]
    IN  IF ~IsWord(word) THEN g
        ELSE IF word.interpret_as # "" /\ word.interpret_as # "currency" THEN g
        ELSE [g EXCEPT !.nodes[key] = currency_of(word)]

date_of(word) ==
    LET date == parse_date(word.text, TRUE)
        again == parse_date(word.text, FALSE)
    IN  IF ~has_digit(word.text) THEN word
        ELSE IF date # None
             THEN [word EXCEPT !.interpret_as = "date", !.date = date]
        ELSE IF word.interpret_as = "date" /\ again # None
             THEN [word EXCEPT !.date = again]
        ELSE word

\* transform_date without the test of a different interpret_as
transform_date_any(g, key) ==
    LET word == g.nodes[key]
    IN  IF ~IsWord(word) THEN g
        ELSE [g EXCEPT !.nodes[key] = date_of(word)]

transform_date(g, key) ==
    LET word == g.nodes[key]
    IN  IF ~IsWord(word) THEN g
        ELSE IF word.interpret_as # "" /\ word.interpret_as # "date" THEN g
        ELSE [g EXCEPT !.nodes[key] = date_of(word)]

(***************************************************************************)
(* Verbalize passes                                                        *)
(***************************************************************************)
\* the "Split into separate words/separators" loop of the verbalizers: one
\* WordNode per non-empty part of the verbalized string
verbalized_words(str, word) ==
    LET settings == get_settings(word.lang)
        groups == grouper_split(str)
        ws == get_whitespace(word.text_with_ws)
        text_of(i) ==
            IF settings.keep_whitespace
            THEN (IF i = 1 THEN ws[1] ELSE <<>>) \o groups[i][1]
                 \o (IF i = Len(groups) THEN ws[2] ELSE groups[i][2])
            ELSE groups[i][1]
        kept == SelectSeq([i \in 1..Len(groups) |-> i],
                          LAMBDA i : groups[i][1] # <<>>)
    IN  [j \in 1..Len(kept) |-> WordKid(text_of(kept[j]), word.lang)]

\* str(word.number.to_integral_value()): the digits of the integer part
integral_digits(word) ==
    LET settings == get_settings(word.lang)
        t == IF settings.lang = "de_DE" THEN Without(word.text, ".") ELSE word.text
    IN  pattern_split(t, {"."})[1]

\* the num2words library raises for this Word's language
num2words_fails(word) == "num2words" \in get_settings(word.lang).failing

number_words(word) ==
    LET to == IF word.format \in {"ordinal", "year"} THEN word.format
              ELSE "cardinal"
        settings == get_settings(word.lang)
        one(num_has_frac) ==
            verbalized_words(num2words(settings.lang, num_has_frac, to), word)
    IN  IF word.format = "digits"
        THEN Concat([i \in 1..Len(integral_digits(word)) |-> one(FALSE)])
        ELSE one(word.number = "frac")

verbalize_number(g, key) ==
    LET word == g.nodes[key]
    IN  IF ~IsWord(word) THEN g
        ELSE IF word.interpret_as # "number" \/ word.number = None THEN g
        ELSE IF ~has_digit(word.text) THEN g
        ELSE attach(g, key, number_words(word))

\* the date format as the letters of M/D/O/Y it is made of
format_letters(format) ==
    IF format = "md" THEN <<"M", "D">>
    ELSE IF format = "dmy" THEN <<"D", "M", "Y">>
    ELSE IF format = "y" THEN <<"Y">>
    ELSE <<"M", "O", "Y">>

date_letter(lang, c) ==
    IF c = "M" THEN W_april
    ELSE IF c = "D" THEN num2words(lang, FALSE, "cardinal")
    ELSE IF c = "O" THEN num2words(lang, FALSE, "ordinal")
    ELSE num2words(lang, FALSE, "year")

RECURSIVE join(_, _)
join(sep, ss) ==
    IF ss = <<>> THEN <<>>
    ELSE IF Len(ss) = 1 THEN Head(ss)
    ELSE Head(ss) \o sep \o join(sep, Tail(ss))

date_words(word) ==
    LET settings == get_settings(word.lang)
        date_format == format_letters(word.format)
        date_str == join(join_str,
                         [i \in 1..Len(date_format) |->
                             date_letter(settings.lang, date_format[i])])
    IN  verbalized_words(date_str, word)

verbalize_date(g, key) ==
    LET word == g.nodes[key]
    IN  IF ~IsWord(word) THEN g
        ELSE IF word.interpret_as # "date" \/ word.date = None THEN g
        ELSE attach(g, key, date_words(word))

\* the call of num2words in _verbalize_number or _verbalize_date raises: no
\* try statement is around it
raises(pass, g, key) ==
    LET word == g.nodes[key]
    IN  /\ IsWord(word)
        /\ num2words_fails(word)
        /\ IF pass = "verbalize_number"
           THEN word.interpret_as = "number" /\ word.number # None
                /\ has_digit(word.text)
           ELSE word.interpret_as = "date" /\ word.date # None

\* the leaves that a pass handles before an exception ends it
RECURSIVE before_raise(_, _, _)
before_raise(pass, g, ls) ==
    IF ls = <<>> \/ raises(pass, g, Head(ls)) THEN <<>>
    ELSE <<Head(ls)>> \o before_raise(pass, g, Tail(ls))

\* "Name of currency": the Word with currency_name filled in
named_currency(word) ==
    LET settings == get_settings(word.lang)
        symbol == IF word.currency_symbol = None THEN "" ELSE word.currency_symbol
        currency_name == IF symbol \in DOMAIN settings.currencies
                         THEN settings.currencies[symbol]
                         ELSE settings.default_currency
    IN  IF word.currency_name = None \/ word.currency_name = ""
        THEN [word EXCEPT !.currency_name = currency_name]
        ELSE word

currency_words(word) ==
    LET num_str == IF word.number = "frac"
                   THEN W_one \o join_str \o W_dollar \o join_str
                        \o W_one \o join_str \o W_cents
                   ELSE W_one \o join_str \o W_dollar
    IN  verbalized_words(num_str, word)

verbalize_currency(g, key) ==
    LET word == g.nodes[key]
    IN  IF ~IsWord(word) THEN g
        ELSE IF \/ word.interpret_as # "currency"
                \/ (word.currency_symbol = None /\ word.currency_name = None)
                \/ word.number = None
             THEN g
        \* "except Exception": logged, and the transform returns
        ELSE IF num2words_fails(word)
        THEN [g EXCEPT !.nodes[key] = named_currency(word)]
        ELSE attach([g EXCEPT !.nodes[key] = named_currency(word)],
                    key, currency_words(word))

(***************************************************************************)
(* Sentence breaker                                                        *)
(***************************************************************************)
\* the path from key's parent up to the nearest SentenceNode
RECURSIVE s_path_of(_, _)
s_path_of(g, key) ==
    LET parent_node == parent_of(g.edges, key)
    IN  IF IsSentence(g.nodes[parent_node]) THEN <<parent_node>>
        ELSE <<parent_node>> \o s_path_of(g, parent_node)

\* _find_parent(graph, node, cls)
RECURSIVE find_parent(_, _, _)
find_parent(g, key, class) ==
    LET parent_node == parent_of(g.edges, key)
    IN  IF predecessors(g.edges, key) = {} THEN -1
        ELSE IF g.nodes[parent_node].kind = class THEN parent_node
        ELSE find_parent(g, parent_node, class)

IndexOf(s, x) == CHOOSE i \in 1..Len(s) : s[i] = x

\* list.append(x) in place of list.insert(i, x)
InsertedLast(q, i, x) == Append(q, x)

\* list.insert(i, x) with a 0-based i
Inserted(s, i, x) == Take(s, i) \o <<x>> \o Drop(s, i)

\* move_edges without graph.remove_edges_from(edges_to_move)
move_edges_keeping(g, s_node, below_s_node) ==
    LET s_edges == g.edges[s_node]
        break_edge_idx == IndexOf(s_edges, below_s_node)
        edges_to_move == Drop(s_edges, break_edge_idx)
        p_node == find_parent(g, s_node, "ParagraphNode")
        p_edges == g.edges[p_node]
        s_edge_idx == IndexOf(p_edges, s_node)
        new_s_node == GraphLen(g.nodes)
    IN  IF edges_to_move = <<>> THEN g
        ELSE [nodes |-> add_node(g.nodes, new_s_node,
                                 NewNode(new_s_node, "SentenceNode",
                                         [implicit |-> TRUE])),
              edges |-> [add_node_edges(g.edges, new_s_node) EXCEPT
                            ![p_node] = Inserted(p_edges, s_edge_idx, new_s_node),
                            ![new_s_node] = edges_to_move]]

\* the body of the loop of _break_sentences once the break is known to be
\* a MAJOR break inside the implicit sentence s_node, below its edge to
\* below_s_node
move_edges(g, s_node, below_s_node) ==
    LET s_edges == g.edges[s_node]
        break_edge_idx == IndexOf(s_edges, below_s_node)
        edges_to_move == Drop(s_edges, break_edge_idx)
        p_node == find_parent(g, s_node, "ParagraphNode")
        p_edges == g.edges[p_node]
        s_edge_idx == IndexOf(p_edges, s_node)
        new_s_node == GraphLen(g.nodes)
    IN  IF edges_to_move = <<>> THEN g
        ELSE [nodes |-> add_node(g.nodes, new_s_node,
                                 NewNode(new_s_node, "SentenceNode",
                                         [implicit |-> TRUE])),
              edges |-> [add_node_edges(g.edges, new_s_node) EXCEPT
                            ![p_node] = Inserted(p_edges, s_edge_idx, new_s_node),
                            ![s_node] = Take(s_edges, break_edge_idx),
                            ![new_s_node] = edges_to_move]]

\* break_at without the test "if not s_node.implicit: continue"
break_at_any(g, key) ==
    LET leaf_node == g.nodes[key]
        s_path == s_path_of(g, key)
        s_node == s_path[Len(s_path)]
    IN  IF leaf_node.kind # "BreakWordNode" THEN g
        ELSE IF leaf_node.break_type # "MAJOR" THEN g
        ELSE move_edges(g, s_node, s_path[Len(s_path) - 1])

break_at(g, key) ==
    LET leaf_node == g.nodes[key]
        s_path == s_path_of(g, key)
        s_node == s_path[Len(s_path)]
    IN  IF leaf_node.kind # "BreakWordNode" THEN g
        ELSE IF leaf_node.break_type # "MAJOR" THEN g
        ELSE IF ~g.nodes[s_node].implicit THEN g
        ELSE move_edges(g, s_node, s_path[Len(s_path) - 1])

RECURSIVE break_leaves(_, _)
break_leaves(g, ls) ==
    IF ls = <<>> THEN g ELSE break_leaves(break_at(g, Head(ls)), Tail(ls))

break_sentences(g, r) == break_leaves(g, leaves(g.edges, r))

(***************************************************************************)
(* SSML reader: the document as XML tokens, and text_and_elements          *)
(***************************************************************************)
NoAttrs ==
    [lang |-> "", name |-> "", interpret_as |-> "", format |-> "",
     alias |-> <<>>, role |-> None, time |-> ""]

OpenTag(tag, attrs) ==
    [type |-> "open", tag |-> tag, attrs |-> attrs, text |-> <<>>]

CloseTag(tag) == [type |-> "close", tag |-> tag, attrs |-> NoAttrs, text |-> <<>>]

TextTok(t) == [type |-> "text", tag |-> "", attrs |-> NoAttrs, text |-> t]

\* the place of the close tag that matches the open tag before place i,
\* depth open tags being unmatched at i
RECURSIVE matching_close(_, _, _)
matching_close(doc, i, depth) ==
    IF doc[i].type = "open" THEN matching_close(doc, i + 1, depth + 1)
    ELSE IF doc[i].type = "close"
         THEN IF depth = 1 THEN i ELSE matching_close(doc, i + 1, depth - 1)
    ELSE matching_close(doc, i + 1, depth)

\* is_last of the element opened at place i: it is the last child element
\* of its parent
is_last_child(doc, i) ==
    LET j == matching_close(doc, i + 1, 1)
        k == IF j < Len(doc) /\ doc[j + 1].type = "text" THEN j + 2 ELSE j + 1
    IN  k <= Len(doc) /\ doc[k].type = "close"

\* history: the places of the open tags that are unmatched after place i
RECURSIVE open_stack(_, _)
open_stack(doc, i) ==
    IF i = 0 THEN <<>>
    ELSE IF doc[i].type = "open" THEN Append(open_stack(doc, i - 1), i)
    ELSE IF doc[i].type = "close"
         THEN Take(open_stack(doc, i - 1), Len(open_stack(doc, i - 1)) - 1)
    ELSE open_stack(doc, i - 1)

\* history: the place of the innermost <p> that is open at place i, or 0
innermost_p(doc, i) ==
    LET inner == SelectSeq(open_stack(doc, i), LAMBDA j : doc[j].tag = "p")
    IN  IF inner = <<>> THEN 0 ELSE inner[Len(inner)]

StartEvent(doc, i) ==
    [type |-> "start", tag |-> doc[i].tag, attrs |-> doc[i].attrs,
     is_last |-> is_last_child(doc, i), text |-> <<>>, at |-> i, pos |-> i]

EndEvent(doc, i) ==
    [type |-> "end", tag |-> doc[i].tag, attrs |-> NoAttrs,
     is_last |-> FALSE, text |-> <<>>, at |-> i, pos |-> i]

\* a text or tail, stripped, and yielded only when something is left; at is
\* history: the innermost <p> whose start has been yielded and whose end has
\* not, ctx being the place of the last token yielded before; pos is
\* history: the place of the token in the document
TextEvent(doc, i, ctx) ==
    IF strip(doc[i].text) = <<>> THEN <<>>
    ELSE << [type |-> "text", tag |-> "", attrs |-> NoAttrs, is_last |-> FALSE,
             text |-> strip(doc[i].text), at |-> innermost_p(doc, ctx),
             pos |-> i] >>

\* text_and_elements(element): the element, its text, its children, its
\* tail, its end
RECURSIVE text_and_elements(_, _)
text_and_elements(doc, i) ==
    IF i > Len(doc) THEN <<>>
    ELSE IF doc[i].type = "open"
         THEN <<StartEvent(doc, i)>> \o text_and_elements(doc, i + 1)
    ELSE IF doc[i].type = "text"
         THEN TextEvent(doc, i, i) \o text_and_elements(doc, i + 1)
    ELSE IF i < Len(doc) /\ doc[i + 1].type = "text"
         THEN TextEvent(doc, i + 1, i - 1) \o <<EndEvent(doc, i)>>
              \o text_and_elements(doc, i + 2)
    ELSE <<EndEvent(doc, i)>> \o text_and_elements(doc, i + 1)

(***************************************************************************)
(* Tree builder: the loop of __call__ over text_and_elements.  The locals  *)
(* of __call__ are one record b, and each branch of the loop is a function *)
(* from the locals and the event to the locals after it.                   *)
(***************************************************************************)
G == [nodes |-> nodes, edges |-> edges]

EmptyRec == [x \in {} |-> TRUE]

\* the locals of __call__ (failed: an assert of the loop has ended the call)
locals ==
    [nodes |-> nodes, edges |-> edges, root |-> root,
     last_paragraph |-> last_paragraph, last_sentence |-> last_sentence,
     last_speak |-> last_speak, voice_stack |-> voice_stack,
     say_as_stack |-> say_as_stack, lang_stack |-> lang_stack,
     current_lang |-> current_lang, in_word |-> in_word,
     is_last_word |-> is_last_word, word_role |-> word_role,
     last_alias |-> last_alias, skip_elements |-> skip_elements,
     failed |-> FALSE]

\* the locals before the loop
initial_locals ==
    [nodes |-> <<>>, edges |-> <<>>, root |-> NoNode,
     last_paragraph |-> NoNode, last_sentence |-> NoNode,
     last_speak |-> NoNode, voice_stack |-> <<>>,
     say_as_stack |-> <<>>, lang_stack |-> <<>>,
     current_lang |-> default_lang, in_word |-> FALSE,
     is_last_word |-> FALSE, word_role |-> None,
     last_alias |-> <<>>, skip_elements |-> FALSE,
     failed |-> FALSE]

\* scope_kwargs(target_class)
scope_kwargs(b, target_class) ==
    [lang |-> b.current_lang]
    @@ (IF b.voice_stack # <<>>
        THEN [voice |-> b.voice_stack[Len(b.voice_stack)]]
        ELSE EmptyRec)
    @@ (IF target_class = "WordNode" /\ b.say_as_stack # <<>>
        THEN [interpret_as |-> b.say_as_stack[Len(b.say_as_stack)][1],
              format |-> b.say_as_stack[Len(b.say_as_stack)][2]]
        ELSE EmptyRec)
    @@ (IF target_class = "WordNode" /\ b.word_role # None
        THEN [role |-> b.word_role] ELSE EmptyRec)

\* the graph with a node of the class added as the last child of parent
\* (no edge when parent is NoNode)
with_node(g, parent, kind, kwargs) ==
    LET k == GraphLen(g.nodes)
        E == add_node_edges(g.edges, k)
    IN  [nodes |-> add_node(g.nodes, k, NewNode(k, kind, kwargs)),
         edges |-> IF parent = NoNode THEN E ELSE add_edge(E, parent, k)]

\* _pipeline_tokenize(graph, parent_node, text, scope_kwargs): the kwargs of
\* the WordNodes added below parent_node
pipeline_tokenize(text, kwargs) ==
    LET settings == get_settings(kwargs.lang)
        groups == SelectSeq(grouper_split(text), LAMBDA grp : grp[1] # <<>>)
        first_ws == get_whitespace(text)[1]
        word_text(i) ==
            IF settings.keep_whitespace
            THEN (IF i = 1 THEN first_ws ELSE <<>>) \o groups[i][1] \o groups[i][2]
            ELSE groups[i][1]
    IN  [i \in 1..Len(groups) |->
            << "WordNode",
               [text |-> strip(word_text(i)), text_with_ws |-> word_text(i),
                implicit |-> TRUE] @@ kwargs >>]

\* the WordNode of a text chunk inside <w> or <token>
explicit_word(b, text, kwargs) ==
    LET settings == get_settings(b.current_lang)
        ends_with_join == text # <<>> /\ <<text[Len(text)]>> = join_str
        word_text == IF settings.keep_whitespace /\ ~b.is_last_word
                        /\ ~ends_with_join
                     THEN text \o join_str ELSE text
    IN  << << "WordNode",
              [text |-> strip(word_text), text_with_ws |-> word_text] @@ kwargs >> >>

builder_vars ==
    << root, last_paragraph, last_sentence, last_speak, voice_stack,
       say_as_stack, lang_stack, current_lang, in_word, is_last_word,
       word_role, last_alias, skip_elements >>

input_vars == << profile, cfg, xml, open, input, args >>

\* what the calls of get_settings and of the callbacks leave behind
effect_vars == << calls, self_settings, warnings >>

\* the loop is over: the split passes start
\* ("assert root is not None" ends the call otherwise)
NextPc(rest, r) ==
    IF rest # <<>> THEN "build"
    ELSE IF r = NoNode THEN "failed" ELSE "replacements"

\* one turn of the loop: the locals become b and the event is consumed
Consume(b, c) ==
    /\ nodes' = b.nodes
    /\ edges' = b.edges
    /\ root' = b.root
    /\ last_paragraph' = b.last_paragraph
    /\ last_sentence' = b.last_sentence
    /\ last_speak' = b.last_speak
    /\ voice_stack' = b.voice_stack
    /\ say_as_stack' = b.say_as_stack
    /\ lang_stack' = b.lang_stack
    /\ current_lang' = b.current_lang
    /\ in_word' = b.in_word
    /\ is_last_word' = b.is_last_word
    /\ word_role' = b.word_role
    /\ last_alias' = b.last_alias
    /\ skip_elements' = b.skip_elements
    /\ events' = Tail(events)
    /\ pc' = IF b.failed THEN "failed" ELSE NextPc(Tail(events), b.root)
    /\ built' = IF Tail(events) = <<>> THEN [nodes |-> b.nodes, edges |-> b.edges]
                ELSE built
    /\ self_settings' = c.settings
    /\ warnings' = c.warnings
    /\ UNCHANGED << input_vars, before, flags, out, calls >>

\* isinstance(elem_or_text, str)
text_chunk(b, ev) ==
    IF b.skip_elements THEN b
    ELSE LET text == IF b.last_alias # <<>> THEN b.last_alias[1] ELSE ev.text
             g0 == [nodes |-> b.nodes, edges |-> b.edges]
             speak == IF b.last_speak = NoNode THEN GraphLen(g0.nodes)
                      ELSE b.last_speak
             g1 == IF b.last_speak = NoNode
                   THEN with_node(g0, NoNode, "SpeakNode", [implicit |-> TRUE])
                   ELSE g0
             paragraph == IF b.last_paragraph = NoNode THEN GraphLen(g1.nodes)
                          ELSE b.last_paragraph
             g2 == IF b.last_paragraph = NoNode
                   THEN with_node(g1, speak, "ParagraphNode",
                                  [implicit |-> TRUE]
                                  @@ scope_kwargs(b, "ParagraphNode"))
                   ELSE g1
             sentence == IF b.last_sentence = NoNode THEN GraphLen(g2.nodes)
                         ELSE b.last_sentence
             g3 == IF b.last_sentence = NoNode
                   THEN with_node(g2, paragraph, "SentenceNode",
                                  [implicit |-> TRUE]
                                  @@ scope_kwargs(b, "SentenceNode"))
                   ELSE g2
             kwargs == [origin |-> ev.at, src |-> ev.pos]
                       @@ scope_kwargs(b, "WordNode")
             g4 == attach(g3, sentence,
                          IF b.in_word THEN explicit_word(b, text, kwargs)
                          ELSE pipeline_tokenize(text, kwargs))
         IN  [b EXCEPT !.nodes = g4.nodes, !.edges = g4.edges,
                       !.last_speak = speak,
                       !.root = IF b.root = NoNode THEN speak ELSE b.root,
                       !.last_paragraph = paragraph,
                       !.last_sentence = sentence]

TextChunk ==
    /\ pc = "build"
    /\ events # <<>>
    /\ Head(events).type = "text"
    \* get_settings(current_lang), or that of _pipeline_tokenize
    /\ Consume(text_chunk(locals, Head(events)),
               IF skip_elements THEN Cache
               ELSE get_settings_effect(Cache, current_lang))

\* isinstance(elem_or_text, EndElement)
end_element(b, ev) ==
    LET end_tag == ev.tag
        lang_stack_0 == b.lang_stack
        popped == IF lang_stack_0 # <<>>
                     /\ lang_stack_0[Len(lang_stack_0)][1] = end_tag
                  THEN Take(lang_stack_0, Len(lang_stack_0) - 1)
                  ELSE lang_stack_0
        scoped == end_tag \notin {"voice", "say-as"}
        word == scoped /\ end_tag \in {"w", "token"}
    IN  [b EXCEPT
            !.voice_stack = IF end_tag = "voice" /\ @ # <<>>
                            THEN Take(@, Len(@) - 1) ELSE @,
            !.say_as_stack = IF end_tag = "say-as" /\ @ # <<>>
                             THEN Take(@, Len(@) - 1) ELSE @,
            !.lang_stack = IF scoped THEN popped ELSE @,
            !.current_lang = IF ~scoped THEN @
                             ELSE IF popped # <<>> THEN popped[Len(popped)][2]
                             ELSE default_lang,
            !.in_word = IF word THEN FALSE ELSE @,
            !.is_last_word = IF word THEN FALSE ELSE @,
            !.word_role = IF word THEN None ELSE @,
            !.last_sentence = IF end_tag = "s" THEN NoNode ELSE @,
            !.last_paragraph = IF end_tag = "p" THEN NoNode ELSE @,
            !.last_speak = IF end_tag = "speak" THEN b.root ELSE @,
            \* the branch that clears last_alias tests end_tag == "s" a
            \* second time and is never taken
            !.last_alias = @,
            !.skip_elements = IF end_tag = "metadata" THEN FALSE ELSE @]

EndElement ==
    /\ pc = "build"
    /\ events # <<>>
    /\ Head(events).type = "end"
    /\ Consume(end_element(locals, Head(events)), Cache)

\* the graph and the speak node once "if last_speak is None" has run
with_speak(b) ==
    LET g == [nodes |-> b.nodes, edges |-> b.edges]
    IN  IF b.last_speak = NoNode
        THEN [g |-> with_node(g, NoNode, "SpeakNode", [implicit |-> TRUE]),
              speak |-> GraphLen(g.nodes)]
        ELSE [g |-> g, speak |-> b.last_speak]

\* the start of an element (the last branch of the loop)
start_element(b, ev) ==
    LET elem_tag == ev.tag
        attrib == ev.attrs
        maybe_lang == attrib.lang
        scoped == elem_tag \in {"speak", "p", "s", "w", "token"}
        lang == IF scoped /\ maybe_lang # "" THEN maybe_lang ELSE b.current_lang
        b_lang == [b EXCEPT !.current_lang = lang]
        kwargs(target_class) == scope_kwargs(b_lang, target_class)
        g0 == [nodes |-> b.nodes, edges |-> b.edges]
        sp == with_speak(b)
        \* "p": the paragraph below the speak node
        p_graph == with_node(sp.g, sp.speak, "ParagraphNode",
                             [element |-> TRUE, origin |-> ev.at]
                             @@ kwargs("ParagraphNode"))
        \* "s": the paragraph made when none is open, then the sentence
        s_par == IF b.last_paragraph = NoNode THEN GraphLen(sp.g.nodes)
                 ELSE b.last_paragraph
        s_graph0 == IF b.last_paragraph = NoNode
                    THEN with_node(sp.g, sp.speak, "ParagraphNode",
                                   scope_kwargs(b, "ParagraphNode"))
                    ELSE sp.g
        s_graph == with_node(s_graph0, s_par, "SentenceNode",
                             [element |-> TRUE] @@ kwargs("SentenceNode"))
        \* "speak": the key len(graph) holds the data of root
        k == GraphLen(b.nodes)
        speak_node == NewNode(k, "SpeakNode",
                              [element |-> TRUE] @@ kwargs("SpeakNode"))
        speak_root == IF b.root = NoNode THEN k ELSE b.root
        last_target == IF b.last_sentence # NoNode THEN b.last_sentence
                       ELSE IF b.last_paragraph # NoNode THEN b.last_paragraph
                       ELSE b.last_speak
        g2 == CASE elem_tag = "speak" ->
                     [nodes |-> add_node(b.nodes, k,
                                         IF b.root = NoNode THEN speak_node
                                         ELSE b.nodes[b.root]),
                      edges |-> add_node_edges(b.edges, k)]
                [] elem_tag = "p" -> p_graph
                [] elem_tag = "s" -> s_graph
                [] elem_tag = "break" /\ last_target # NoNode ->
                     with_node(g0, last_target, "BreakNode",
                               [element |-> TRUE, time |-> attrib.time])
                [] OTHER -> g0
        on(tag) == elem_tag = tag
        word == elem_tag \in {"w", "token"}
    IN  IF b.skip_elements THEN b
        ELSE [b EXCEPT
                !.nodes = g2.nodes,
                !.edges = g2.edges,
                !.root = IF on("speak") THEN speak_root
                         ELSE IF (on("p") \/ on("s")) /\ @ = NoNode THEN sp.speak
                         ELSE @,
                !.last_speak = IF on("speak") THEN speak_root
                               ELSE IF on("p") \/ on("s") THEN sp.speak
                               ELSE @,
                !.last_paragraph = IF on("p") THEN GraphLen(sp.g.nodes)
                                   ELSE IF on("s") THEN s_par
                                   ELSE @,
                !.last_sentence = IF on("s") THEN GraphLen(s_graph0.nodes) ELSE @,
                !.lang_stack = IF scoped /\ maybe_lang # ""
                               THEN Append(@, <<elem_tag, maybe_lang>>) ELSE @,
                !.current_lang = lang,
                !.voice_stack = IF on("voice") THEN Append(@, attrib.name) ELSE @,
                !.say_as_stack = IF on("say-as")
                                 THEN Append(@, <<attrib.interpret_as,
                                                  attrib.format>>)
                                 ELSE @,
                !.in_word = IF word THEN TRUE ELSE @,
                !.is_last_word = IF word THEN ev.is_last ELSE @,
                !.word_role = IF word THEN attrib.role ELSE @,
                !.last_alias = IF on("sub") THEN <<attrib.alias>> ELSE @,
                !.skip_elements = IF on("metadata") THEN TRUE ELSE @,
                \* "assert last_target is not None" ends the call
                !.failed = on("break") /\ last_target = NoNode]

StartElement ==
    /\ pc = "build"
    /\ events # <<>>
    /\ Head(events).type = "start"
    /\ Consume(start_element(locals, Head(events)), Cache)

\* the loop of __call__ as a function: the locals after the events, or at
\* the assert that ended the call
RECURSIVE run_loop(_, _)
run_loop(b, evs) ==
    IF evs = <<>> \/ b.failed THEN b
    ELSE run_loop(CASE Head(evs).type = "text" -> text_chunk(b, Head(evs))
                    [] Head(evs).type = "end" -> end_element(b, Head(evs))
                    [] OTHER -> start_element(b, Head(evs)),
                  Tail(evs))

(***************************************************************************)
(* The passes of __call__ after the loop, in the order of the source       *)
(***************************************************************************)
\* one pass: the graph becomes g2 and control moves to the next pass
Pass(g2, next) ==
    /\ nodes' = g2.nodes
    /\ edges' = g2.edges
    /\ before' = G
    /\ pc' = next
    /\ UNCHANGED << input_vars, events, builder_vars, built, flags, out,
                    effect_vars >>

SplitReplacements ==
    /\ pc = "replacements"
    /\ Pass(pipeline_split(split_replacements, G, root), "punctuations_1")

SplitPunctuations1 ==
    /\ pc = "punctuations_1"
    /\ Pass(pipeline_split(split_punctuations, G, root), "minor_breaks")

SplitMinorBreaks ==
    /\ pc = "minor_breaks"
    /\ Pass(pipeline_split(split_minor_breaks, G, root), "abbreviations")

SplitAbbreviations ==
    /\ pc = "abbreviations"
    /\ Pass(pipeline_split(split_abbreviations, G, root), "initialism_1")

SplitInitialism1 ==
    /\ pc = "initialism_1"
    /\ Pass(pipeline_split(split_initialism, G, root), "major_breaks")

SplitMajorBreaks ==
    /\ pc = "major_breaks"
    /\ Pass(pipeline_split(split_major_breaks, G, root), "punctuations_2")

SplitPunctuations2 ==
    /\ pc = "punctuations_2"
    /\ Pass(pipeline_split(split_punctuations, G, root), "initialism_2")

SplitInitialism2 ==
    /\ pc = "initialism_2"
    /\ Pass(pipeline_split(split_initialism, G, root), "break_sentences")

BreakSentences ==
    /\ pc = "break_sentences"
    /\ Pass(break_sentences(G, root), "spell_out")

SplitSpellOut ==
    /\ pc = "spell_out"
    /\ Pass(pipeline_split(split_spell_out, G, root), "transform_number")

TransformNumber ==
    /\ pc = "transform_number"
    /\ Pass(pipeline_transform(transform_number, G, root), "transform_currency")

TransformCurrency ==
    /\ pc = "transform_currency"
    /\ Pass(pipeline_transform(transform_currency, G, root), "transform_date")

TransformDate ==
    /\ pc = "transform_date"
    /\ Pass(pipeline_transform(transform_date, G, root), "verbalize_number")

\* a verbalize pass over the leaves handled (all of them, or those before
\* the leaf whose num2words call raised)
VerbalizeNumber ==
    LET handled == before_raise("verbalize_number", G, leaves(edges, root))
    IN  /\ pc = "verbalize_number"
        /\ Pass(transform_leaves(verbalize_number, G, handled),
                IF handled = leaves(edges, root) THEN "verbalize_currency"
                ELSE "raised")

VerbalizeCurrency ==
    /\ pc = "verbalize_currency"
    /\ Pass(pipeline_transform(verbalize_currency, G, root), "verbalize_date")

VerbalizeDate ==
    LET handled == before_raise("verbalize_date", G, leaves(edges, root))
    IN  /\ pc = "verbalize_date"
        /\ Pass(transform_leaves(verbalize_date, G, handled),
                IF handled = leaves(edges, root) THEN "break_words"
                ELSE "raised")

BreakWords ==
    /\ pc = "break_words"
    /\ Pass(pipeline_split(break_words, G, root), "ignore_non_words")

SplitIgnoreNonWords ==
    /\ pc = "ignore_non_words"
    /\ Pass(pipeline_split(split_ignore_non_words, G, root), "process_sentences")

(***************************************************************************)
(* process_sentence and the loop over the leaves that calls it             *)
(***************************************************************************)
\* settings.get_parts_of_speech(texts): one tag per word, which tells the
\* tagger: that of the settings given for a language, or the one passed to
\* the constructor, which the settings of all other languages share
pos_tag(name) == IF name \in DOMAIN cfg.given THEN name ELSE "TAG"

\* settings.lookup_phonemes is not None
has_lookup_phonemes(settings) == settings.lexicon # {} \/ settings.silent # {}

\* settings.lookup_phonemes(text, role): a pronunciation, an empty one, or
\* None
lookup_phonemes(settings, text) ==
    IF in_lexicon(settings, text) THEN "lookup"
    ELSE IF text \in settings.silent THEN "empty" ELSE None

\* bool(word.phonemes)
Truthy(phonemes) == phonemes \notin {None, "empty"}

\* one entry of calls: the callback fn of the settings object, called with
\* the texts of the words (their keys in the graph) and, for the phoneme
\* callbacks, the role
Call(fn, name, N, words, role) ==
    [fn |-> fn, settings |-> name,
     texts |-> [i \in 1..Len(words) |-> N[words[i]].text],
     role |-> role, words |-> words]

\* "if pos:" of process_sentence; acc is [N, calls, cache, raised]
tag_words(acc, words, node) ==
    LET name == get_settings_name(acc.cache, node.lang)
        pos_settings == settings_object(name)
        asked == [acc EXCEPT !.cache = get_settings_effect(@, node.lang)]
        called == [asked EXCEPT !.calls =
                      Append(@, Call("get_parts_of_speech", name, acc.N,
                                     words, ""))]
        tagged(k) ==
            IF k \notin SeqSet(words) THEN acc.N[k]
            ELSE [acc.N[k] EXCEPT
                     !.pos = pos_tag(name),
                     !.role = IF @ = "" THEN "gruut:" \o pos_tag(name)
                              ELSE @]
    IN  IF ~args.pos THEN acc
        ELSE IF ~pos_settings.get_parts_of_speech THEN asked
        ELSE IF "get_parts_of_speech" \in pos_settings.failing
        THEN [called EXCEPT !.raised = TRUE]
        ELSE [called EXCEPT !.N = [k \in DOMAIN acc.N |-> tagged(k)]]

\* phonemize_word that calls guess_phonemes whatever lookup_phonemes gave
phonemize_word_guessing(acc, k) ==
    LET word == acc.N[k]
        name == get_settings_name(acc.cache, word.lang)
        phonemize_settings == settings_object(name)
        lookup == has_lookup_phonemes(phonemize_settings)
        lookup_raises ==
            lookup /\ "lookup_phonemes" \in phonemize_settings.failing
        looked == IF lookup THEN lookup_phonemes(phonemize_settings, word.text)
                  ELSE word.phonemes
        guess == ~lookup_raises /\ phonemize_settings.guess_phonemes
        guess_raises == guess /\ "guess_phonemes" \in phonemize_settings.failing
        call(fn) == Call(fn, name, acc.N, <<k>>, word.role)
        phonemes == IF lookup_raises THEN word.phonemes
                    ELSE IF guess /\ ~guess_raises THEN "guess"
                    ELSE looked
    IN  IF Truthy(word.phonemes) THEN acc
        ELSE [N |-> [acc.N EXCEPT ![k].phonemes = phonemes],
              calls |-> acc.calls
                  \o (IF lookup THEN <<call("lookup_phonemes")>> ELSE <<>>)
                  \o (IF guess THEN <<call("guess_phonemes")>> ELSE <<>>),
              cache |-> get_settings_effect(acc.cache, word.lang),
              raised |-> lookup_raises \/ guess_raises]

\* one turn of "for word in words:" under "if phonemize:"
phonemize_word(acc, k) ==
    LET word == acc.N[k]
        name == get_settings_name(acc.cache, word.lang)
        phonemize_settings == settings_object(name)
        lookup == has_lookup_phonemes(phonemize_settings)
        lookup_raises ==
            lookup /\ "lookup_phonemes" \in phonemize_settings.failing
        looked == IF lookup THEN lookup_phonemes(phonemize_settings, word.text)
                  ELSE word.phonemes
        guess == ~lookup_raises /\ ~Truthy(looked)
                 /\ phonemize_settings.guess_phonemes
        guess_raises == guess /\ "guess_phonemes" \in phonemize_settings.failing
        call(fn) == Call(fn, name, acc.N, <<k>>, word.role)
        phonemes == IF lookup_raises THEN word.phonemes
                    ELSE IF guess /\ ~guess_raises THEN "guess"
                    ELSE looked
    IN  IF Truthy(word.phonemes) THEN acc
        ELSE [N |-> [acc.N EXCEPT ![k].phonemes = phonemes],
              calls |-> acc.calls
                  \o (IF lookup THEN <<call("lookup_phonemes")>> ELSE <<>>)
                  \o (IF guess THEN <<call("guess_phonemes")>> ELSE <<>>),
              cache |-> get_settings_effect(acc.cache, word.lang),
              raised |-> lookup_raises \/ guess_raises]

\* "if phonemize:" of process_sentence, word by word
RECURSIVE phonemize_words(_, _)
phonemize_words(acc, words) ==
    IF words = <<>> \/ acc.raised \/ ~args.phonemize THEN acc
    ELSE phonemize_words(phonemize_word(acc, Head(words)), Tail(words))

\* process_sentence(words), node being the loop variable of the caller
process_sentence(acc, words, node) ==
    IF acc.raised THEN acc
    ELSE phonemize_words(tag_words(acc, words, node), words)

\* "Process tree leaves": sentence_words is gathered beside acc
RECURSIVE process_leaves(_, _, _)
process_leaves(acc, E, order) ==
    IF order = <<>> THEN acc
    ELSE LET node == acc.N[Head(order)]
             gathered == acc.sentence_words
         IN  process_leaves(
                 IF IsSentence(node)
                 THEN (IF gathered = <<>> THEN acc
                       ELSE [sentence_words |-> <<>>]
                            @@ process_sentence(acc, gathered, node))
                 ELSE IF E[Head(order)] = <<>> /\ IsWord(node)
                 THEN [acc EXCEPT !.sentence_words = Append(@, Head(order))]
                 ELSE acc,
                 E, Tail(order))

\* "Post-process sentences": get_settings(sent_node.lang) of every Sentence
RECURSIVE post_process_effect(_, _, _)
post_process_effect(c, N, order) ==
    IF order = <<>> THEN c
    ELSE post_process_effect(
             IF IsSentence(N[Head(order)])
             THEN get_settings_effect(c, N[Head(order)].lang) ELSE c,
             N, Tail(order))

\* the leaf loop, the final sentence and the post-processing
processed(g, r) ==
    LET order == dfs_preorder_nodes(g.edges, r)
        acc == process_leaves([N |-> g.nodes, calls |-> calls, cache |-> Cache,
                               raised |-> FALSE, sentence_words |-> <<>>],
                              g.edges, order)
        \* the final sentence: node is the last node of the loop
        final == IF acc.sentence_words = <<>> THEN acc
                 ELSE process_sentence(acc, acc.sentence_words,
                                       acc.N[order[Len(order)]])
    IN  IF final.raised \/ ~args.post_process THEN final
        ELSE [final EXCEPT !.cache = post_process_effect(@, final.N, order)]

ProcessSentences ==
    LET done == processed(G, root)
    IN  /\ pc = "process_sentences"
        /\ nodes' = done.N
        /\ before' = G
        /\ pc' = IF done.raised THEN "raised" ELSE "done"
        /\ calls' = done.calls
        /\ self_settings' = done.cache.settings
        /\ warnings' = done.cache.warnings
        /\ UNCHANGED << input_vars, events, builder_vars, edges, built, flags,
                        out >>

(***************************************************************************)
(* sentences(graph, root, ...)                                             *)
(***************************************************************************)
\* get_lang(lang)
get_lang(lang, f) == IF f.explicit_lang \/ lang # default_lang THEN lang ELSE ""

\* _phonemes_for_break(break_type)
phonemes_for_break(break_type) ==
    IF break_type = "MAJOR" THEN "BREAK_MAJOR"
    ELSE IF break_type = "MINOR" THEN "BREAK_MINOR"
    ELSE None

\* "Get voice used across all words"
RECURSIVE voice_across(_, _)
voice_across(words, sent_voice) ==
    IF words = <<>> THEN sent_voice
    ELSE IF Head(words).voice = "" THEN voice_across(Tail(words), sent_voice)
    ELSE IF sent_voice # "" /\ sent_voice # Head(words).voice THEN ""
    ELSE voice_across(Tail(words), Head(words).voice)

\* make_sentence(node, words, sent_idx); the field node is history: the key
\* of the SentenceNode
make_sentence(node, words, sent_idx, f) ==
    LET text_with_ws == Concat([i \in 1..Len(words) |-> words[i].text_with_ws])
        sent_voice == voice_across(words, "")
    IN  [idx |-> sent_idx,
         text |-> normalize_whitespace(text_with_ws),
         text_with_ws |-> text_with_ws,
         lang |-> get_lang(node.lang, f),
         voice |-> sent_voice,
         words |-> IF sent_voice # ""
                   THEN [i \in 1..Len(words) |->
                            [words[i] EXCEPT !.voice = sent_voice]]
                   ELSE words,
         node |-> node.node]

\* Word(idx=word_idx, sent_idx=sent_idx, ...); the field node is history:
\* the key of the leaf
Word(acc, n, key, phonemes, pos, voice, is_break, is_punctuation, f) ==
    [idx |-> acc.word_idx, sent_idx |-> acc.sent_idx, text |-> n.text,
     text_with_ws |-> n.text_with_ws, phonemes |-> phonemes, pos |-> pos,
     lang |-> get_lang(n.lang, f), voice |-> voice, is_break |-> is_break,
     is_punctuation |-> is_punctuation, node |-> key]

\* appended without "word_idx += 1"
appended_same_idx(acc, word) == [acc EXCEPT !.words = Append(@, word)]

\* acc after a Word is appended
appended(acc, word) ==
    [acc EXCEPT !.words = Append(@, word), !.word_idx = @ + 1]

\* the loop's turn when a SentenceNode never ends the sentence before it
sentences_step_merged(acc, g, key, f) ==
    LET node == g.nodes[key]
    IN  IF IsSentence(node) THEN [acc EXCEPT !.last_sentence_node = key]
        ELSE IF g.edges[key] = <<>> /\ IsWord(node)
        THEN [acc EXCEPT !.words = Append(@, Word(acc, node, key, node.phonemes,
                                                   node.pos, node.voice, FALSE,
                                                   FALSE, f)),
                         !.word_idx = @ + 1]
        ELSE acc

\* one turn of the loop over nx.dfs_preorder_nodes
sentences_step(acc, g, key, f) ==
    LET node == g.nodes[key]
        leaf == g.edges[key] = <<>>
    IN  IF IsSentence(node)
        THEN IF acc.words # <<>> /\ acc.last_sentence_node # NoNode
             THEN [acc EXCEPT
                      !.out = Append(@, make_sentence(
                                  g.nodes[acc.last_sentence_node],
                                  acc.words, acc.sent_idx, f)),
                      !.sent_idx = @ + 1, !.word_idx = 0, !.words = <<>>,
                      !.last_sentence_node = key]
             ELSE [acc EXCEPT !.last_sentence_node = key]
        ELSE IF ~leaf THEN acc
        ELSE IF IsWord(node)
        THEN appended(acc, Word(acc, node, key, node.phonemes, node.pos,
                                node.voice, FALSE, FALSE, f))
        ELSE IF node.kind = "BreakWordNode"
        THEN IF (f.minor_breaks /\ node.break_type = "MINOR")
                \/ (f.major_breaks /\ node.break_type = "MAJOR")
             THEN appended(acc, Word(acc, node, key,
                                     IF f.break_phonemes
                                     THEN phonemes_for_break(node.break_type)
                                     ELSE None,
                                     None, "", TRUE, FALSE, f))
             ELSE acc
        ELSE IF f.punctuations /\ node.kind = "PunctuationWordNode"
        THEN appended(acc, Word(acc, node, key, None, None, "", FALSE, TRUE, f))
        ELSE acc

RECURSIVE sentences_loop(_, _, _, _)
sentences_loop(acc, g, order, f) ==
    IF order = <<>> THEN acc
    ELSE sentences_loop(sentences_step(acc, g, Head(order), f), g, Tail(order), f)

sentences(g, r, f) ==
    LET acc == sentences_loop(
                   [sent_idx |-> 0, word_idx |-> 0, words |-> <<>>,
                    last_sentence_node |-> NoNode, out |-> <<>>],
                   g, dfs_preorder_nodes(g.edges, r), f)
    IN  IF acc.words # <<>> /\ acc.last_sentence_node # NoNode
        THEN Append(acc.out, make_sentence(g.nodes[acc.last_sentence_node],
                                           acc.words, acc.sent_idx, f))
        ELSE acc.out

\* process(text, pos=True, phonemize=True)
DefaultArgs == [pos |-> TRUE, phonemize |-> TRUE, post_process |-> TRUE]

DefaultFlags ==
    [major_breaks |-> TRUE, minor_breaks |-> TRUE, punctuations |-> TRUE,
     explicit_lang |-> TRUE, break_phonemes |-> TRUE]

(***************************************************************************)
(* Inputs: settings, documents and texts                                   *)
(***************************************************************************)
\* TextProcessorSettings(lang): the defaults of the dataclass
BaseSettings ==
    [lang |-> default_lang, keep_whitespace |-> TRUE, replacements |-> <<>>,
     begin_punctuations |-> {}, end_punctuations |-> {},
     major_breaks |-> {}, minor_breaks |-> {}, abbreviations |-> <<>>,
     initialisms |-> FALSE, lexicon |-> {},
     spell_out_words |-> [c \in {} |-> <<>>], word_breaks |-> {},
     non_words |-> FALSE, currency_symbols |-> <<"$">>,
     currencies |-> [c \in {"$"} |-> "USD"], default_currency |-> "USD",
     get_parts_of_speech |-> FALSE, guess_phonemes |-> FALSE,
     \* lookup_phonemes is the lexicon; silent: the texts it answers with
     \* an empty pronunciation
     silent |-> {},
     \* the collaborators that raise when called
     failing |-> {},
     \* the settings argument of the constructor: language to settings
     given |-> [l \in {} |-> 0]]

\* settings with sentence breaks and quotes; replacements is the choice
PunctuatedSettings(replacements) ==
    [BaseSettings EXCEPT !.major_breaks = {"."}, !.minor_breaks = {","},
                         !.begin_punctuations = {"\""},
                         !.end_punctuations = {"\""},
                         !.replacements = replacements]

T_a == <<"a">>
T_two == <<"a", ".", " ", "b", " ", "a">>
T_three == <<"a", ".", " ", "b", ".", " ", "a">>
T_semi == <<"a", ";", "b", " ", "a">>
T_quote == <<"\"", "a", ".", "\"", " ", "b">>
T_hash == <<"#">>

\* settings under which every pass has something to do
FullSettings ==
    [PunctuatedSettings(<< << ";", <<".", " ">> >> >>) EXCEPT
        !.abbreviations = << << <<"b">>, <<"a", " ", "a">> >> >>,
        !.initialisms = TRUE,
        !.spell_out_words = [c \in {"."} |-> W_point],
        !.word_breaks = {"-"},
        !.non_words = TRUE]

T_int == <<"1">>
T_dollar == <<"$", "1">>
T_dotted == <<"1", ".", "1", ".", "1">>
T_frac == <<"1", ".", "1">>
T_stop == <<"a", ".">>
T_caps == <<"T", "T">>
T_abbr == <<"b">>
T_dash == <<"a", "-", "a">>
T_subst == <<"a", ";", "a">>
T_comma == <<"a", ",">>
T_quoted == <<"\"", "a">>
T_hyphen == <<"-">>
T_then == <<"a", ".", " ", "1">>

SayAs(interpret_as) ==
    OpenTag("say-as", [NoAttrs EXCEPT !.interpret_as = interpret_as])

\* plain texts of at most MaxTextLen characters
Alphabet == {"a", " ", ".", ",", "\""}

Texts == UNION {[1..n -> Alphabet] : n \in 0..MaxTextLen}

TextSettings ==
    {[BaseSettings EXCEPT !.major_breaks = major, !.minor_breaks = minor,
                          !.begin_punctuations = punct,
                          !.end_punctuations = punct] :
        major \in {{}, {"."}}, minor \in {{}, {","}}, punct \in {{}, {"\""}}}

\* settings with a tagger, a lexicon that knows "a" and answers "b" with an
\* empty pronunciation, and a guesser
EnrichedSettings ==
    [BaseSettings EXCEPT !.get_parts_of_speech = TRUE, !.lexicon = {T_a},
                         !.silent = {T_abbr}, !.guess_phonemes = TRUE]

\* TextProcessor(settings={"de_DE": TextProcessorSettings(lang="de_DE")}, ...)
GivenGerman == [l \in {"de_DE"} |-> [BaseSettings EXCEPT !.lang = "de_DE"]]

\* the collaborators are sound, or one of them raises
EnrichSettings ==
    {[EnrichedSettings EXCEPT !.failing = failing] :
        failing \in {{}, {"get_parts_of_speech"}, {"lookup_phonemes"},
                     {"guess_phonemes"}, {"num2words"}}}
    \cup {[EnrichedSettings EXCEPT !.given = GivenGerman]}

\* the settings, root elements, child elements and texts a document of the
\* profile is made of
Configs(prof) ==
    CASE prof = "structure" ->
           {PunctuatedSettings(<<>>),
            PunctuatedSettings(<< << ";", <<".", " ">> >>, << "#", <<>> >> >>)}
      [] prof = "say_as" -> {FullSettings}
      [] prof = "text" -> TextSettings
      [] prof \in {"scope", "skip"} -> {PunctuatedSettings(<<>>)}
      [] prof = "enrich" -> EnrichSettings
      [] prof = "settings" ->
           {BaseSettings, [BaseSettings EXCEPT !.given = GivenGerman],
            [BaseSettings EXCEPT !.non_words = TRUE]}
      [] OTHER -> {BaseSettings}

Roots(prof) ==
    CASE prof = "structure" -> {OpenTag("speak", NoAttrs), OpenTag("s", NoAttrs)}
      [] prof = "say_as" ->
           {OpenTag("speak", NoAttrs),
            OpenTag("speak", [NoAttrs EXCEPT !.lang = "de_DE"])}
      [] prof = "scope" ->
           {OpenTag("speak", NoAttrs),
            OpenTag("s", [NoAttrs EXCEPT !.lang = "de_DE"]),
            OpenTag("voice", [NoAttrs EXCEPT !.name = "B"])}
      [] prof = "skip" ->
           {OpenTag("speak", NoAttrs),
            OpenTag("s", [NoAttrs EXCEPT !.lang = "de_DE"])}
      [] prof = "enrich" ->
           {OpenTag("speak", NoAttrs),
            OpenTag("speak", [NoAttrs EXCEPT !.lang = "de_DE"])}
      [] OTHER -> {OpenTag("speak", NoAttrs)}

Elements(prof) ==
    CASE prof = "structure" -> {OpenTag("p", NoAttrs), OpenTag("s", NoAttrs)}
      [] prof = "say_as" ->
           {SayAs("number"), SayAs("currency"), SayAs("date"), SayAs("spell-out")}
      [] prof = "scope" ->
           {OpenTag("s", NoAttrs),
            OpenTag("s", [NoAttrs EXCEPT !.lang = "de_DE"]),
            OpenTag("w", [NoAttrs EXCEPT !.lang = "es_ES"]),
            OpenTag("voice", [NoAttrs EXCEPT !.name = "A"]),
            SayAs("number")}
      [] prof = "skip" ->
           {OpenTag("s", NoAttrs),
            OpenTag("s", [NoAttrs EXCEPT !.lang = "de_DE"]),
            OpenTag("voice", [NoAttrs EXCEPT !.name = "A"]),
            OpenTag("sub", [NoAttrs EXCEPT !.alias = T_abbr]),
            OpenTag("metadata", NoAttrs)}
      [] prof = "enrich" ->
           {OpenTag("s", [NoAttrs EXCEPT !.lang = "de_DE"]),
            OpenTag("w", [NoAttrs EXCEPT !.role = "x"])}
      [] OTHER -> {}

Vocabulary(prof) ==
    CASE prof = "structure" -> {T_a, T_two, T_three, T_semi, T_quote, T_hash}
      [] prof = "say_as" ->
           {T_a, T_int, T_dollar, T_dotted, T_frac, T_stop, T_caps, T_abbr,
            T_dash, T_subst, T_comma, T_quoted, T_hyphen, T_nan,
            T_then}
      [] prof = "scope" -> {T_int}
      [] prof = "skip" -> {T_a}
      [] prof = "enrich" -> {T_a, T_abbr, T_int, T_dollar}
      [] OTHER -> {}

\* the arguments of process()
ArgChoices(prof, settings) ==
    IF prof = "enrich" /\ settings = EnrichedSettings
    THEN {DefaultArgs, [DefaultArgs EXCEPT !.pos = FALSE],
          [DefaultArgs EXCEPT !.phonemize = FALSE]}
    ELSE {DefaultArgs}

\* the most tokens a document of the profile has
XmlBound(prof) ==
    IF prof = "say_as" THEN MaxSayAsXml
    ELSE IF prof \in {"scope", "skip"} THEN MaxScopeXml
    ELSE IF prof = "enrich" THEN MaxEnrichXml
    ELSE MaxXml

FlagChoices(prof) ==
    CASE prof = "structure" ->
           {[DefaultFlags EXCEPT !.major_breaks = a, !.minor_breaks = b,
                                 !.punctuations = c] : a, b, c \in BOOLEAN}
      [] OTHER -> {DefaultFlags}

(***************************************************************************)
(* The caller: writing the document, process(), sentences()                *)
(***************************************************************************)
\* the next token of a well-formed document of at most XmlBound tokens
NextTokens ==
    IF xml = <<>> THEN Roots(profile)
    ELSE IF open = <<>> THEN {}
    ELSE {CloseTag(open[Len(open)])}
         \cup (IF Len(xml) + Len(open) < XmlBound(profile)
               THEN Elements(profile)
                    \cup (IF xml[Len(xml)].type = "text" THEN {}
                          ELSE {TextTok(t) : t \in Vocabulary(profile)})
               ELSE {})

\* the caller writes one more token of the SSML document
Author ==
    /\ pc = "author"
    /\ \E tok \in NextTokens :
          /\ xml' = Append(xml, tok)
          /\ open' = IF tok.type = "open" THEN Append(open, tok.tag)
                     ELSE IF tok.type = "close" THEN Take(open, Len(open) - 1)
                     ELSE open
    /\ UNCHANGED << profile, cfg, input, args, events, pc, nodes, edges,
                    builder_vars, built, before, flags, out, effect_vars >>

\* __call__ up to the loop: escape and wrap plain text, parse, and start the
\* walk of text_and_elements
Parse ==
    /\ pc \in {"author", "text"}
    /\ IF pc = "author"
       THEN xml # <<>> /\ open = <<>> /\ xml' = xml
       ELSE xml' = <<OpenTag("speak", NoAttrs)>>
                   \o (IF input = <<>> THEN <<>> ELSE <<TextTok(input)>>)
                   \o <<CloseTag("speak")>>
    /\ events' = text_and_elements(xml', 1)
    /\ pc' = "build"
    /\ UNCHANGED << profile, cfg, open, input, args, nodes, edges, builder_vars,
                    built, before, flags, out, effect_vars >>

\* make_sentence: get_settings(node.lang) of every Sentence emitted
RECURSIVE sentences_effect(_, _, _)
sentences_effect(c, N, sents) ==
    IF sents = <<>> THEN c
    ELSE sentences_effect(get_settings_effect(c, N[Head(sents).node].lang),
                          N, Tail(sents))

\* the caller reads the sentences of the processed graph
Sentences ==
    /\ pc = "done"
    /\ \E f \in FlagChoices(profile) :
          /\ flags' = f
          /\ out' = sentences(G, root, f)
    /\ pc' = "emitted"
    /\ self_settings' = sentences_effect(Cache, nodes, out').settings
    /\ warnings' = sentences_effect(Cache, nodes, out').warnings
    /\ UNCHANGED << input_vars, events, nodes, edges, builder_vars, built, before,
                    calls >>

\* the languages a caller asks get_settings for: None, the default
\* language, an alias, the language it stands for, and others
AskedLangs == {"", "en_US", "de", "de_DE", "es_ES", "fr_FR"}

\* the caller calls get_settings(lang)
GetSettings ==
    /\ pc = "idle"
    /\ Len(calls) < MaxAsked
    /\ \E lang \in AskedLangs :
          LET effect == get_settings_effect(Cache, lang)
          IN  /\ calls' = Append(calls,
                      [fn |-> "get_settings", lang |-> lang,
                       settings |-> get_settings_name(Cache, lang),
                       warned |-> effect.warnings # warnings])
              /\ self_settings' = effect.settings
              /\ warnings' = effect.warnings
    /\ UNCHANGED << input_vars, events, pc, nodes, edges, builder_vars, built,
                    before, flags, out >>

\* the state after construction of the processor, before any call
InitCall ==
    /\ xml = <<>>
    /\ open = <<>>
    /\ events = <<>>
    /\ nodes = <<>>
    /\ edges = <<>>
    /\ root = NoNode
    /\ last_paragraph = NoNode
    /\ last_sentence = NoNode
    /\ last_speak = NoNode
    /\ voice_stack = <<>>
    /\ say_as_stack = <<>>
    /\ lang_stack = <<>>
    /\ current_lang = default_lang
    /\ in_word = FALSE
    /\ is_last_word = FALSE
    /\ word_role = None
    /\ last_alias = <<>>
    /\ skip_elements = FALSE
    /\ built = [nodes |-> <<>>, edges |-> <<>>]
    /\ before = [nodes |-> <<>>, edges |-> <<>>]
    /\ flags = DefaultFlags
    /\ out = <<>>
    /\ args \in ArgChoices(profile, cfg)
    /\ calls = <<>>
    /\ self_settings = [lang \in {default_lang} \cup DOMAIN cfg.given |-> lang]
    /\ warnings = <<>>

Init ==
    /\ profile = "structure"
    /\ cfg \in Configs("structure")
    /\ input = <<>>
    /\ pc = "author"
    /\ InitCall

Process ==
    \/ Parse
    \/ StartElement
    \/ TextChunk
    \/ EndElement
    \/ SplitReplacements
    \/ SplitPunctuations1
    \/ SplitMinorBreaks
    \/ SplitAbbreviations
    \/ SplitInitialism1
    \/ SplitMajorBreaks
    \/ SplitPunctuations2
    \/ SplitInitialism2
    \/ BreakSentences
    \/ SplitSpellOut
    \/ TransformNumber
    \/ TransformCurrency
    \/ TransformDate
    \/ VerbalizeNumber
    \/ VerbalizeCurrency
    \/ VerbalizeDate
    \/ BreakWords
    \/ SplitIgnoreNonWords
    \/ ProcessSentences
    \/ Sentences

Next == Author \/ Process

Spec == Init /\ [][Next]_vars

\* documents with <say-as>, in the default language or in de_DE
InitSayAs ==
    /\ profile = "say_as"
    /\ cfg \in Configs("say_as")
    /\ input = <<>>
    /\ pc = "author"
    /\ InitCall

SpecSayAs == InitSayAs /\ [][Next]_vars

\* plain text (ssml=False)
InitText ==
    /\ profile = "text"
    /\ cfg \in Configs("text")
    /\ input \in Texts
    /\ pc = "text"
    /\ InitCall

NextText == Process

SpecText == InitText /\ [][NextText]_vars

\* documents with lang, voice and say-as scopes
InitScope ==
    /\ profile = "scope"
    /\ cfg \in Configs("scope")
    /\ input = <<>>
    /\ pc = "author"
    /\ InitCall

SpecScope == InitScope /\ [][Next]_vars

\* documents with <sub> and <metadata>
InitSkip ==
    /\ profile = "skip"
    /\ cfg \in Configs("skip")
    /\ input = <<>>
    /\ pc = "author"
    /\ InitCall

SpecSkip == InitSkip /\ [][Next]_vars

\* documents whose words are tagged and phonemized, with collaborators that
\* may raise
InitEnrich ==
    /\ profile = "enrich"
    /\ cfg \in Configs("enrich")
    /\ input = <<>>
    /\ pc = "author"
    /\ InitCall

SpecEnrich == InitEnrich /\ [][Next]_vars

\* a processor whose owner only asks for settings
InitSettings ==
    /\ profile = "settings"
    /\ cfg \in Configs("settings")
    /\ input = <<>>
    /\ pc = "idle"
    /\ InitCall

NextSettings == GetSettings

SpecSettings == InitSettings /\ [][NextSettings]_vars

(***************************************************************************)
(* Properties of the sentence breaker and of sentences()                   *)
(***************************************************************************)
Descendants(E, key) == SeqSet(dfs_preorder_nodes(E, key))

IsMajorBreak(n) == n.kind = "BreakWordNode" /\ n.break_type = "MAJOR"

\* the Sentence nodes the tree builder made
BuiltSentences(implicit) ==
    {k \in DOMAIN built.nodes : /\ IsSentence(built.nodes[k])
                                /\ built.nodes[k].implicit = implicit}

\* the edge below key holds a MAJOR break leaf
HasMajorBreak(key) ==
    \E l \in SeqSet(leaves(edges, key)) : IsMajorBreak(nodes[l])

\* the leaf is emitted by sentences() under the flags f
EmittedLeaf(n, f) ==
    \/ IsWord(n)
    \/ /\ n.kind = "BreakWordNode"
       /\ \/ f.minor_breaks /\ n.break_type = "MINOR"
          \/ f.major_breaks /\ n.break_type = "MAJOR"
    \/ f.punctuations /\ n.kind = "PunctuationWordNode"

\* the places in out of the Sentences that hold a word from below key
OutputsOf(key) ==
    {i \in 1..Len(out) :
        \E j \in 1..Len(out[i].words) :
            out[i].words[j].node \in Descendants(edges, key)}

AfterBuild == pc \notin {"author", "text", "build", "failed"}

\* C1: the leaves the tree builder put under an explicit Sentence (one made
\* for an <s> element) stay descendants of that Sentence through every pass,
\* the sentence breaker included, and all the words emitted for it are in
\* one output Sentence, which is the output of that Sentence node.
C1_ExplicitSentenceWhole ==
    AfterBuild =>
        \A k \in BuiltSentences(FALSE) :
            /\ SeqSet(leaves(built.edges, k)) \subseteq Descendants(edges, k)
            /\ pc = "emitted" =>
                  /\ Cardinality(OutputsOf(k)) <= 1
                  /\ \A i \in OutputsOf(k) :
                        /\ out[i].node = k
                        /\ \A j \in 1..Len(out[i].words) :
                              out[i].words[j].node \in Descendants(edges, k)

\* an explicit Sentence with a MAJOR break in the middle of its text has
\* been emitted
C1_Witness ==
    /\ pc = "emitted"
    /\ \E k \in BuiltSentences(FALSE) :
          /\ Len(edges[k]) >= 2
          /\ HasMajorBreak(edges[k][1])
          /\ \E i \in 1..Len(out) : out[i].node = k /\ Len(out[i].words) >= 3

\* C2: once the sentence breaker has run, in every implicit Sentence the
\* edge that holds a MAJOR break is the last edge, and no word follows a
\* MAJOR break among the leaves of the Sentence (only punctuation peeled
\* from the same word may).
C2_NothingFollowsMajorBreak ==
    pc = "spell_out" =>
        \A k \in DOMAIN nodes :
            IsSentence(nodes[k]) /\ nodes[k].implicit =>
                /\ \A i \in 1..Len(edges[k]) :
                      HasMajorBreak(edges[k][i]) => i = Len(edges[k])
                /\ LET L == leaves(edges, k)
                   IN  \A i, j \in 1..Len(L) :
                          i < j /\ IsMajorBreak(nodes[L[i]])
                              => ~IsWord(nodes[L[j]])

\* the part of C2 about sentence-level edges alone
C2_BreakEdgeIsLast ==
    pc = "spell_out" =>
        \A k \in DOMAIN nodes :
            IsSentence(nodes[k]) /\ nodes[k].implicit =>
                \A i \in 1..Len(edges[k]) :
                    HasMajorBreak(edges[k][i]) => i = Len(edges[k])

\* the edge lists of the nodes that follow place j of pe and are not in old,
\* up to the next node that is
RECURSIVE NewRun(_, _, _, _)
NewRun(E, pe, j, old) ==
    IF j > Len(pe) THEN <<>>
    ELSE IF pe[j] \in old THEN <<>>
    ELSE E[pe[j]] \o NewRun(E, pe, j + 1, old)

\* C3: the sentence breaker keeps the depth-first sequence of leaves; the
\* edges a paragraph had keep their order; and each Sentence's former edge
\* list is its edge list followed by those of the new Sentences that stand
\* right after it in the paragraph, in order.
C3_BreakerKeepsOrder ==
    pc = "spell_out" =>
        LET old == DOMAIN before.nodes
        IN  /\ leaves(edges, root) = leaves(before.edges, root)
            /\ \A p \in old :
                  before.nodes[p].kind = "ParagraphNode" =>
                      /\ SelectSeq(edges[p], LAMBDA k : k \in old)
                            = before.edges[p]
                      /\ \A i \in 1..Len(edges[p]) :
                            edges[p][i] \in old =>
                                edges[edges[p][i]]
                                    \o NewRun(edges, edges[p], i + 1, old)
                                = before.edges[edges[p][i]]

\* a new Sentence with two moved edges stands between the Sentence it was
\* split from and a Sentence the paragraph already had
C3_Witness ==
    /\ pc = "spell_out"
    /\ \E p \in DOMAIN before.nodes :
          \E i \in 1..Len(edges[p]) :
              /\ i + 2 <= Len(edges[p])
              /\ edges[p][i] \in DOMAIN before.nodes
              /\ edges[p][i + 1] \notin DOMAIN before.nodes
              /\ edges[p][i + 2] \in DOMAIN before.nodes
              /\ Len(edges[edges[p][i + 1]]) >= 2

\* C4: when the tree is built, every Word made from a text chunk is a child
\* of a Sentence that is a child of the Paragraph open when the text was
\* read: the Paragraph of the innermost open <p>, or one that stands for no
\* <p> when none is open.
C4_WordUnderOpenParagraph ==
    pc = "replacements" =>
        \A w \in DOMAIN nodes :
            IsWord(nodes[w]) =>
                /\ predecessors(edges, w) # {}
                /\ IsSentence(nodes[parent_of(edges, w)])
                /\ LET p == parent_of(edges, parent_of(edges, w))
                   IN  /\ nodes[p].kind = "ParagraphNode"
                       /\ nodes[p].origin = nodes[w].origin

\* C5: in the output of sentences(), under every choice of flags, Sentence
\* idx counts 0,1,2,.., word idx counts 0,1,2,.. within each Sentence, each
\* word's sent_idx is the idx of its Sentence, and no word of a kind the
\* flags filter out is present.
C5_OutputIndices ==
    pc = "emitted" =>
        \A i \in 1..Len(out) :
            /\ out[i].idx = i - 1
            /\ \A j \in 1..Len(out[i].words) :
                  LET word == out[i].words[j]
                  IN  /\ word.idx = j - 1
                      /\ word.sent_idx = out[i].idx
                      /\ EmittedLeaf(nodes[word.node], flags)
                      /\ word.is_break = (nodes[word.node].kind = "BreakWordNode")
                      /\ word.is_punctuation
                            = (nodes[word.node].kind = "PunctuationWordNode")

\* two Sentences are emitted, one of several words, while major breaks are
\* filtered out of a graph that has one and punctuation is kept
C5_Witness ==
    /\ pc = "emitted"
    /\ ~flags.major_breaks
    /\ flags.punctuations
    /\ Len(out) >= 2
    /\ \E k \in DOMAIN nodes : edges[k] = <<>> /\ IsMajorBreak(nodes[k])
    /\ \E i \in 1..Len(out) :
          /\ Len(out[i].words) >= 3
          /\ \E j \in 1..Len(out[i].words) : out[i].words[j].is_punctuation

\* the places in out of the Sentences emitted for the Sentence node key
SentenceOutputs(key) == {i \in 1..Len(out) : out[i].node = key}

HasEmittedLeaf(key) ==
    \E l \in SeqSet(leaves(edges, key)) : EmittedLeaf(nodes[l], flags)

\* the Sentence nodes that hold the edges the built Sentence key had
Parts(key) ==
    {n \in DOMAIN nodes : /\ IsSentence(nodes[n])
                          /\ edges[n] # <<>>
                          /\ SeqSet(edges[n]) \subseteq SeqSet(built.edges[key])}

\* the edges of the built Sentence key, other than the last, that hold a
\* MAJOR break
BreakEdges(key) ==
    {i \in 1..(Len(built.edges[key]) - 1) : HasMajorBreak(built.edges[key][i])}

\* C7 (as amended): a Sentence node with an emitted word produces exactly
\* one output Sentence and one without produces none, so an explicit <s>
\* produces at most one; an implicit Sentence becomes one Sentence node more
\* than it has edges, other than its last, that hold a major break.
C7_SentencesPerNode ==
    pc = "emitted" =>
        /\ \A k \in DOMAIN nodes :
              IsSentence(nodes[k]) =>
                  Cardinality(SentenceOutputs(k))
                      = IF HasEmittedLeaf(k) THEN 1 ELSE 0
        /\ \A k \in BuiltSentences(FALSE) : Parts(k) \subseteq {k}
        /\ \A k \in BuiltSentences(TRUE) :
              Cardinality(Parts(k)) = 1 + Cardinality(BreakEdges(k))

\* an implicit Sentence with two major breaks became three Sentences and an
\* explicit Sentence was emitted after them
C7_Witness ==
    /\ pc = "emitted"
    /\ \E k \in BuiltSentences(TRUE) :
          /\ Cardinality(Parts(k)) = 3
          /\ \A n \in Parts(k) : SentenceOutputs(n) # {}
    /\ \E k \in BuiltSentences(FALSE) : SentenceOutputs(k) # {}

\* the MAJOR break leaves below the edges the built Sentence key had
MajorBreaksOf(key) ==
    {l \in DOMAIN nodes :
        /\ IsMajorBreak(nodes[l])
        /\ \E i \in 1..Len(built.edges[key]) :
              l \in SeqSet(leaves(edges, built.edges[key][i]))}

\* C7 (as stated): every explicit <s> produces exactly one output Sentence,
\* and an implicit Sentence produces as many output Sentences as it has
\* major breaks.
C7_OnePerMajorBreak ==
    pc = "emitted" =>
        /\ \A k \in BuiltSentences(FALSE) : Cardinality(SentenceOutputs(k)) = 1
        /\ \A k \in BuiltSentences(TRUE) :
              Cardinality(UNION {SentenceOutputs(n) : n \in Parts(k)})
                  = Cardinality(MajorBreaksOf(k))

(***************************************************************************)
(* Properties of plain text, of locked Words and of the transforms         *)
(***************************************************************************)
\* text_with_ws of every emitted word, in order
EmittedText ==
    Concat([i \in 1..Len(out) |->
               Concat([j \in 1..Len(out[i].words) |->
                          out[i].words[j].text_with_ws])])

\* C6: with keep_whitespace, for plain text of letters, whitespace, break
\* glyphs and quotes (no number, currency, date, abbreviation or
\* replacement), the text_with_ws of all emitted words, breaks and
\* punctuation included, concatenate to the input; stated for input without
\* whitespace at either end, which the reader of the text strips.
C6_RoundTrip ==
    /\ pc = "emitted"
    /\ cfg.keep_whitespace
    /\ flags.major_breaks /\ flags.minor_breaks /\ flags.punctuations
    /\ input = strip(input)
    => EmittedText = input

\* the passes that skip a Word with interpret_as, by where control stands
\* once each has run
AfterLockedPass ==
    pc \in {"punctuations_1", "minor_breaks", "abbreviations", "initialism_1",
            "major_breaks", "punctuations_2", "initialism_2",
            "break_sentences", "ignore_non_words", "process_sentences"}

\* the leaf Words of the graph before the last pass that had interpret_as
LockedLeaves ==
    {k \in DOMAIN before.nodes : /\ IsWord(before.nodes[k])
                                 /\ before.edges[k] = <<>>
                                 /\ before.nodes[k].interpret_as # ""}

\* C8: the replacements, punctuation, minor-break, abbreviation, initialism,
\* major-break, word-break and ignore-non-words passes leave every Word that
\* has interpret_as when they visit it as it was and without children; a
\* Word with interpret_as has children only from spell-out or from the
\* verbalization of its number, date or currency.
C8_LockedWordsSkipped ==
    /\ AfterLockedPass =>
          \A k \in LockedLeaves :
              nodes[k] = before.nodes[k] /\ edges[k] = <<>>
    /\ AfterBuild =>
          \A k \in DOMAIN nodes :
              IsWord(nodes[k]) /\ nodes[k].interpret_as # "" /\ edges[k] # <<>>
                  => \/ k \in DOMAIN built.nodes /\ built.edges[k] # <<>>
                     \/ pc \notin {"replacements", "punctuations_1",
                                   "minor_breaks", "abbreviations",
                                   "initialism_1", "major_breaks",
                                   "punctuations_2", "initialism_2",
                                   "break_sentences", "spell_out"}

\* the major-break pass has just passed over a locked Word that ends in a
\* major break glyph
C8_Witness ==
    /\ pc = "punctuations_2"
    /\ cfg.major_breaks # {}
    /\ \E k \in LockedLeaves :
          /\ Len(nodes[k].text) >= 2
          /\ nodes[k].text[Len(nodes[k].text)] \in cfg.major_breaks
          /\ edges[k] = <<>>

\* the leaf Words of the graph before the last pass
WordLeavesBefore ==
    {k \in DOMAIN before.nodes : IsWord(before.nodes[k]) /\ before.edges[k] = <<>>}

\* the last pass changed no Word whose interpret_as was set and was not of
\* the kind, and attached nothing
Untouched(kind) ==
    /\ edges = before.edges
    /\ \A k \in WordLeavesBefore :
          before.nodes[k].interpret_as \notin {"", kind}
              => nodes[k] = before.nodes[k]

\* the Word got its interpret_as from <say-as>
Forced(k) == k \in DOMAIN built.nodes /\ built.nodes[k].interpret_as # ""

C9_Transformed ==
    /\ pc = "transform_currency" =>
          /\ Untouched("number")
          /\ \A k \in WordLeavesBefore :
                /\ before.nodes[k].interpret_as \in {"", "number"}
                /\ parse_decimal(before.nodes[k].text,
                                 get_settings(before.nodes[k].lang).lang) # None
                => nodes[k].interpret_as = "number" /\ nodes[k].number # None
    /\ pc = "transform_date" => Untouched("currency")
    /\ pc = "verbalize_number" =>
          /\ Untouched("date")
          /\ \A k \in DOMAIN nodes :
                IsWord(nodes[k]) /\ edges[k] = <<>> =>
                    /\ nodes[k].number # None
                          => nodes[k].interpret_as \in {"number", "currency"}
                    /\ nodes[k].date # None => nodes[k].interpret_as = "date"
                    /\ nodes[k].currency_symbol # None
                          => nodes[k].interpret_as = "currency"
                    /\ nodes[k].currency_name # None
                          => nodes[k].interpret_as = "currency"
                    /\ ~Forced(k)
                       /\ parse_decimal(nodes[k].text,
                                        get_settings(nodes[k].lang).lang) # None
                          => nodes[k].interpret_as = "number"

C9_Step ==
    /\ pc = "transform_number" => pc' = "transform_currency"
    /\ pc = "transform_currency" => pc' = "transform_date"
    /\ pc = "transform_date" => pc' = "verbalize_number"

\* C9: the number transform is followed by the currency transform and that
\* by the date transform; each interprets the leaf Words it can and changes
\* no Word whose interpret_as is set to another interpretation; after the
\* three, a Word has the fields of its one interpretation only, and a Word
\* not from <say-as> whose text parses as a number is a number, whatever
\* else it parses as.
C9_TransformsInOrder == [][C9_Step]_vars /\ []C9_Transformed

\* after the three transforms, a Word whose text is both a date and, in its
\* language, a number is a number, beside a Word that is a date
C9_Witness ==
    /\ pc = "verbalize_number"
    /\ \E k \in DOMAIN nodes :
          /\ IsWord(nodes[k]) /\ edges[k] = <<>> /\ ~Forced(k)
          /\ parse_date(nodes[k].text, TRUE) # None
          /\ nodes[k].interpret_as = "number"
          /\ nodes[k].date = None

\* the optional field holds a value
IsSet(v) == v # None /\ v # ""

\* C10: when process() returns, a Word with interpret_as number has its
\* number, one with currency has its number and exactly one of
\* currency_symbol and currency_name, and one with date has its date.
C10_InterpretationFields ==
    pc = "done" =>
        \A k \in DOMAIN nodes :
            IsWord(nodes[k]) =>
                /\ nodes[k].interpret_as = "number" => nodes[k].number # None
                /\ nodes[k].interpret_as = "currency" =>
                      /\ nodes[k].number # None
                      /\ IsSet(nodes[k].currency_symbol)
                            # IsSet(nodes[k].currency_name)
                /\ nodes[k].interpret_as = "date" => nodes[k].date # None

(***************************************************************************)
(* Properties of the scope stacks                                          *)
(***************************************************************************)
\* the places of the elements that enclose place i of the document and
\* satisfy declares, innermost last
Enclosing(doc, i, declares(_)) ==
    SelectSeq(open_stack(doc, i), LAMBDA j : declares(doc[j]))

DeclaresLang(tok) ==
    tok.tag \in {"speak", "p", "s", "w", "token"} /\ tok.attrs.lang # ""

DeclaresVoice(tok) == tok.tag = "voice"

DeclaresSayAs(tok) == tok.tag = "say-as"

\* the language, voice and say-as that the document declares for place i
DeclaredLang(doc, i) ==
    LET e == Enclosing(doc, i, DeclaresLang)
    IN  IF e = <<>> THEN default_lang ELSE doc[e[Len(e)]].attrs.lang

DeclaredVoice(doc, i) ==
    LET e == Enclosing(doc, i, DeclaresVoice)
    IN  IF e = <<>> THEN <<>> ELSE <<doc[e[Len(e)]].attrs.name>>

DeclaredSayAs(doc, i) ==
    LET e == Enclosing(doc, i, DeclaresSayAs)
    IN  IF e = <<>> THEN <<>>
        ELSE << <<doc[e[Len(e)]].attrs.interpret_as, doc[e[Len(e)]].attrs.format>> >>

\* the top of a stack as a sequence of at most one entry
Top(stack) == IF stack = <<>> THEN <<>> ELSE <<stack[Len(stack)]>>

AtTextChunk == pc = "build" /\ events # <<>> /\ Head(events).type = "text"

\* C11: whenever the tree builder is at a text chunk, the current language,
\* the top of the voice stack and the top of the say-as stack are the ones
\* declared by the nearest element of the document that encloses the text
\* and declares one (the default language, and no voice or say-as, when no
\* enclosing element does).
C11_ScopeIsNearestDeclared ==
    AtTextChunk =>
        /\ current_lang = DeclaredLang(xml, Head(events).pos)
        /\ Top(voice_stack) = DeclaredVoice(xml, Head(events).pos)
        /\ Top(say_as_stack) = DeclaredSayAs(xml, Head(events).pos)

\* the Word that the tree builder made of a text chunk and that key
\* descends from (key itself when the builder made it)
RECURSIVE SourceOf(_)
SourceOf(key) ==
    IF nodes[key].src # 0 \/ predecessors(edges, key) = {} THEN key
    ELSE SourceOf(parent_of(edges, key))

\* every child of a Word has the language of the Word
LangInherited ==
    \A u \in DOMAIN nodes : \A i \in 1..Len(edges[u]) :
        IsWord(nodes[u]) => nodes[edges[u][i]].lang = nodes[u].lang

\* C12: a node attached under a Word has the Word's lang, and every emitted
\* word carries the language that the document declares for the text it
\* came from; a "1" is verbalized in that language.
C12_LangOfSourceText ==
    /\ LangInherited
    /\ pc = "emitted" =>
          \A i \in 1..Len(out) : \A j \in 1..Len(out[i].words) :
              LET w == out[i].words[j]
                  source == nodes[SourceOf(w.node)]
                  declared == DeclaredLang(xml, source.src)
              IN  /\ w.lang = declared
                  /\ source.text = T_int /\ source.interpret_as = ""
                        => w.text = one_in(declared)

(***************************************************************************)
(* Properties of <metadata> and <sub>                                      *)
(***************************************************************************)
\* the document with every <metadata> subtree removed
RECURSIVE WithoutMetadata(_, _)
WithoutMetadata(doc, i) ==
    IF i > Len(doc) THEN <<>>
    ELSE IF doc[i].type = "open" /\ doc[i].tag = "metadata"
         THEN WithoutMetadata(doc, matching_close(doc, i + 1, 1) + 1)
    ELSE <<doc[i]>> \o WithoutMetadata(doc, i + 1)

HasMetadata(doc) == \E i \in 1..Len(doc) : doc[i].tag = "metadata"

\* removing the <metadata> subtrees has not made two texts adjacent
TextsApart(doc) ==
    \A i \in 1..(Len(doc) - 1) : ~(doc[i].type = "text" /\ doc[i + 1].type = "text")

\* the nodes without their history fields
Erased(N) == [k \in DOMAIN N |-> [N[k] EXCEPT !.origin = 0, !.src = 0]]

\* the tree builder has just consumed the last event of the document
BuildOver == events = <<>> /\ pc \in {"replacements", "failed"}

\* C13: when the tree builder has read a document with <metadata>
\* elements, its nodes and edges (and with them the sentence, paragraph,
\* voice, say-as and language of every text) are the ones it builds for the
\* same document with the <metadata> subtrees removed.
C13_MetadataIgnored ==
    LET plain == WithoutMetadata(xml, 1)
        ref == run_loop(initial_locals, text_and_elements(plain, 1))
    IN  BuildOver /\ HasMetadata(xml) /\ TextsApart(plain) =>
            /\ (pc = "failed") = (ref.failed \/ ref.root = NoNode)
            /\ pc = "replacements" =>
                  /\ Erased(nodes) = Erased(ref.nodes)
                  /\ edges = ref.edges

\* the Words that the tree builder made of the text at place p, in order
WordsOfText(p) ==
    SelectSeq([i \in 1..GraphLen(nodes) |-> i - 1], LAMBDA k : nodes[k].src = p)

\* the text that place p of the document stands for: the alias of the
\* nearest enclosing <sub>, or the text itself
DeclaresAlias(tok) == tok.tag = "sub"

SpokenText(doc, p) ==
    LET e == Enclosing(doc, p, DeclaresAlias)
    IN  IF e = <<>> THEN strip(doc[p].text) ELSE doc[e[Len(e)]].attrs.alias

\* C14: the Words built from a text inside <sub alias=...> spell the alias,
\* and the Words built from any text outside a <sub> (before it or after
\* its end) spell that text.
C14_AliasOnlyInsideSub ==
    \A p \in 1..Len(xml) :
        LET ws == WordsOfText(p)
        IN  xml[p].type = "text" /\ ws # <<>> =>
                strip(Concat([i \in 1..Len(ws) |-> nodes[ws[i]].text_with_ws]))
                    = strip(SpokenText(xml, p))

(***************************************************************************)
(* Failures of the collaborators                                           *)
(***************************************************************************)
\* the Words of the graph g that the currency verbalizer handles
CurrencyWords(g) ==
    {k \in DOMAIN g.nodes :
        /\ IsWord(g.nodes[k])
        /\ g.edges[k] = <<>>
        /\ g.nodes[k].interpret_as = "currency"
        /\ g.nodes[k].number # None}

\* process() has ended with an exception of a collaborator
Propagated == pc = "raised"

\* the currency verbalizer has caught a failure of num2words and has left a
\* Word changed
CaughtButChanged ==
    /\ pc = "verbalize_date"
    /\ \E k \in CurrencyWords(before) :
          /\ num2words_fails(before.nodes[k])
          /\ nodes[k] # before.nodes[k]

\* C15: a failure of the tagger, of lookup_phonemes, of guess_phonemes or of
\* num2words is not propagated to the caller of process(), and the Word it
\* was called for keeps its fields.
C15_FailureContained == ~Propagated /\ ~CaughtButChanged

(***************************************************************************)
(* Parse failures in the transform passes                                  *)
(***************************************************************************)
\* babel raises ValueError for the text in _transform_number
NumberParseFails(word) ==
    /\ IsWord(word)
    /\ word.interpret_as \in {"", "number"}
    /\ parse_decimal(word.text, get_settings(word.lang).lang) = None

\* no currency symbol gives a number in _transform_currency, nor does the
\* forced parse with the default currency
CurrencyParseFails(word) ==
    LET settings == get_settings(word.lang)
    IN  /\ IsWord(word)
        /\ word.interpret_as \in {"", "currency"}
        /\ \A i \in 1..Len(settings.currency_symbols) :
              \/ word.text = <<>>
              \/ Head(word.text) # settings.currency_symbols[i]
              \/ parse_decimal(Tail(word.text), settings.lang) = None
        /\ word.interpret_as = "currency" =>
              parse_decimal(word.text, settings.lang) = None

\* dateparser returns None in _transform_date, also without strict parsing
\* when the interpretation is forced
DateParseFails(word) ==
    /\ IsWord(word)
    /\ word.interpret_as \in {"", "date"}
    /\ parse_date(word.text, TRUE) = None
    /\ word.interpret_as = "date" => parse_date(word.text, FALSE) = None

\* the leaf Words whose parse failed in the transform pass that has just run
FailedInLastPass ==
    {k \in WordLeavesBefore :
        \/ pc = "transform_currency" /\ NumberParseFails(before.nodes[k])
        \/ pc = "transform_date" /\ CurrencyParseFails(before.nodes[k])
        \/ pc = "verbalize_number" /\ DateParseFails(before.nodes[k])}

\* a Word with a forced interpretation that no transform could parse
Unparsed(word) ==
    /\ IsWord(word)
    /\ \/ word.interpret_as = "number" /\ word.number = None
       \/ word.interpret_as = "currency" /\ word.number = None
       \/ word.interpret_as = "date" /\ word.date = None

\* the Word is in the output as it is in the graph
EmittedLiterally(k) ==
    \E i \in 1..Len(out) : \E j \in 1..Len(out[i].words) :
        /\ out[i].words[j].node = k
        /\ out[i].words[j].text = nodes[k].text
        /\ out[i].words[j].text_with_ws = nodes[k].text_with_ws

AskedFor(call) == IF call.lang = "" THEN default_lang ELSE call.lang

\* the keys of self.settings after the constructor
Constructed == {default_lang} \cup DOMAIN cfg.given

\* the calls of get_settings before the i-th
Earlier(i) == {j \in 1..(i - 1) : calls[j].fn = "get_settings"}

\* the language of the i-th call had no settings, nor had its resolved form
Unknown(i) ==
    LET known == Constructed \cup {AskedFor(calls[j]) : j \in Earlier(i)}
    IN  /\ AskedFor(calls[i]) \notin known
        /\ resolve_lang(AskedFor(calls[i])) \notin known

\* what the calls so far have returned and logged
OnceAndCached ==
    \A i \in 1..Len(calls) :
        calls[i].fn = "get_settings" =>
            /\ Unknown(i) =>
                  /\ calls[i].warned
                  /\ settings_object(calls[i].settings)
                        = TextProcessorSettings(AskedFor(calls[i]))
            /\ \A j \in Earlier(i) :
                  AskedFor(calls[j]) = AskedFor(calls[i]) =>
                      /\ calls[i].settings = calls[j].settings
                      /\ ~calls[i].warned
            /\ Cardinality({j \in 1..Len(warnings) :
                               warnings[j] = AskedFor(calls[i])}) <= 1

\* no step replaces the settings of a language that has some
NeverReplaced ==
    /\ cfg' = cfg
    /\ \A lang \in DOMAIN self_settings :
          lang \in DOMAIN self_settings'
              /\ self_settings'[lang] = self_settings[lang]

\* C17: get_settings(lang) for a language without settings, whose resolved
\* form has none either, warns once, creates default settings and caches
\* them; every later call for it returns the same object with no new
\* warning, and no call replaces or modifies the settings of another
\* language.
C17_SettingsCached == []OnceAndCached /\ [][NeverReplaced]_vars

\* fr_FR was asked for twice: warned and created the first time, returned
\* from the cache the second time, beside the settings given for de_DE
C17_Witness ==
    /\ pc = "idle"
    /\ "de_DE" \in Constructed
    /\ \E i, j \in 1..Len(calls) :
          /\ i < j
          /\ calls[i].lang = "fr_FR" /\ calls[j].lang = "fr_FR"
          /\ calls[i].warned /\ ~calls[j].warned
          /\ calls[j].settings = calls[i].settings
          /\ warnings = <<"fr_FR">>

(***************************************************************************)
(* The voice of a Sentence                                                 *)
(***************************************************************************)
\* the voice a word of the output was made with: that of its WordNode, and
\* none for a break or a punctuation
VoiceBefore(word) ==
    IF word.is_break \/ word.is_punctuation THEN "" ELSE nodes[word.node].voice

\* all words of the Sentence were made with the voice V
AllShare(sent, V) ==
    \A j \in 1..Len(sent.words) : VoiceBefore(sent.words[j]) = V

\* C18: sentences() gives a Sentence the voice V exactly when all its words
\* have the voice V, gives it no voice otherwise, and changes no word's
\* voice.
C18_VoiceWhenShared ==
    pc = "emitted" =>
        \A i \in 1..Len(out) :
            /\ out[i].voice # "" => AllShare(out[i], out[i].voice)
            /\ \A V \in {"A", "B"} : AllShare(out[i], V) => out[i].voice = V
            /\ \A j \in 1..Len(out[i].words) :
                  out[i].words[j].voice = VoiceBefore(out[i].words[j])

\* a Sentence of two Words, one without a voice, was given the voice of the
\* other
VoiceSpread ==
    /\ pc = "emitted"
    /\ \E i \in 1..Len(out) :
          /\ out[i].voice = "A"
          /\ \E j \in 1..Len(out[i].words) :
                /\ ~out[i].words[j].is_break
                /\ nodes[out[i].words[j].node].voice = ""
                /\ out[i].words[j].voice = "A"

(***************************************************************************)
(* Part-of-speech tagging                                                  *)
(***************************************************************************)
\* the Word leaves of the Sentence k, in document order
SentenceWords(k) ==
    SelectSeq(dfs_preorder_nodes(edges, k),
              LAMBDA w : /\ IsWord(nodes[w])
                         /\ edges[w] = <<>>
                         /\ find_parent(G, w, "SentenceNode") = k)

\* the Sentences with a Word leaf whose language has a tagger
TaggedSentences ==
    {k \in DOMAIN nodes :
        /\ IsSentence(nodes[k])
        /\ SentenceWords(k) # <<>>
        /\ get_settings(nodes[k].lang).get_parts_of_speech}

\* the places in calls of the calls of a tagger
TaggerCalls == {i \in 1..Len(calls) : calls[i].fn = "get_parts_of_speech"}

\* the call is that of the tagger of the Sentence's language with the texts
\* of the Sentence's Word leaves
CallFor(i, k) ==
    /\ calls[i].words = SentenceWords(k)
    /\ calls[i].texts = [j \in 1..Len(SentenceWords(k)) |->
                            nodes[SentenceWords(k)[j]].text]
    /\ pos_tag(calls[i].settings) = pos_tag(get_settings_name(Cache, nodes[k].lang))

\* C19: with pos=true, the tagger is called exactly once for each Sentence
\* that has a Word leaf, with the texts of its Word leaves in document order;
\* each tag is stored as the Word's pos, and the Word's role becomes
\* gruut:<pos> only if it had none.
C19_TaggedPerSentence ==
    pc = "done" /\ args.pos =>
        /\ \A k \in TaggedSentences :
              /\ Cardinality({i \in TaggerCalls : CallFor(i, k)}) = 1
              /\ \A j \in 1..Len(SentenceWords(k)) :
                    LET w == SentenceWords(k)[j]
                        tag == pos_tag(get_settings_name(Cache, nodes[k].lang))
                    IN  /\ nodes[w].pos = tag
                        /\ nodes[w].role = IF before.nodes[w].role = ""
                                           THEN "gruut:" \o tag
                                           ELSE before.nodes[w].role
        /\ \A i \in TaggerCalls : \E k \in TaggedSentences : CallFor(i, k)

(***************************************************************************)
(* Phonemes                                                                *)
(***************************************************************************)
\* the Word leaves of the graph
WordLeaves == {k \in DOMAIN nodes : IsWord(nodes[k]) /\ edges[k] = <<>>}

\* the places in calls of the calls of the callback fn for the Word w
CallsFor(fn, w) ==
    {i \in 1..Len(calls) : calls[i].fn = fn /\ calls[i].words = <<w>>}

\* the call was made with the Word's text and role, to the callback of the
\* Word's own language
OfOwnLanguage(i, w) ==
    /\ calls[i].settings = get_settings_name(Cache, nodes[w].lang)
    /\ calls[i].texts = <<nodes[w].text>>
    /\ calls[i].role = nodes[w].role

\* the guesser was called for a Word only when the lookup of its language
\* had returned None
C20_GuessOnlyAfterNone ==
    pc = "done" /\ args.phonemize =>
        \A w \in WordLeaves :
            LET settings == get_settings(nodes[w].lang)
            IN  CallsFor("guess_phonemes", w) # {}
                   /\ has_lookup_phonemes(settings)
                => lookup_phonemes(settings, nodes[w].text) = None

\* C20: with phonemize=true, for each Word leaf without phonemes the lookup
\* of the Word's own language is called with its text and role, and the
\* guesser is called, after it, only if the lookup gave no phonemes (None,
\* or a pronunciation that is empty); a Word that has phonemes is not
\* touched and no callback is called for it.
C20_LookupThenGuess ==
    pc = "done" /\ args.phonemize =>
        \A w \in WordLeaves :
            LET settings == get_settings(nodes[w].lang)
                had == Truthy(before.nodes[w].phonemes)
                looked == lookup_phonemes(settings, nodes[w].text)
                lookups == CallsFor("lookup_phonemes", w)
                guesses == CallsFor("guess_phonemes", w)
            IN  /\ had => /\ lookups = {} /\ guesses = {}
                          /\ nodes[w].phonemes = before.nodes[w].phonemes
                /\ ~had =>
                      /\ Cardinality(lookups)
                            = IF has_lookup_phonemes(settings) THEN 1 ELSE 0
                      /\ Cardinality(guesses) <= 1
                      /\ guesses # {} <=>
                            /\ settings.guess_phonemes
                            /\ has_lookup_phonemes(settings) => ~Truthy(looked)
                      /\ \A i \in lookups : \A j \in guesses : i < j
                      /\ \A i \in lookups \cup guesses : OfOwnLanguage(i, w)
                      /\ has_lookup_phonemes(settings) /\ Truthy(looked) =>
                            nodes[w].phonemes = looked

\* process() has ended for a document with a Word the lexicon knows, for
\* which only the lookup was called, and a Word it does not know, for which
\* the guesser was called after the lookup
C20_Witness ==
    /\ pc = "done"
    /\ args.phonemize
    /\ \E v, w \in WordLeaves :
          /\ nodes[v].phonemes = "lookup"
          /\ CallsFor("lookup_phonemes", v) # {}
          /\ CallsFor("guess_phonemes", v) = {}
          /\ nodes[w].phonemes = "guess"
          /\ lookup_phonemes(get_settings(nodes[w].lang), nodes[w].text) = None
          /\ CallsFor("lookup_phonemes", w) # {}
          /\ CallsFor("guess_phonemes", w) # {}

(***************************************************************************)
(* Spell-out                                                               *)
(***************************************************************************)
\* the leaf Words that the spell-out pass, which has just run, expanded
SpelledBefore ==
    {k \in WordLeavesBefore : before.nodes[k].interpret_as = "spell-out"}

\* the child is the Word for the character c of a spelled-out Word
SpellsCharacter(child, c, word) ==
    LET spell_out_words == get_settings(word.lang).spell_out_words
    IN  /\ IsWord(child)
        /\ child.lang = word.lang
        /\ child.interpret_as = ""
        /\ child.text = IF c \in DOMAIN spell_out_words THEN spell_out_words[c]
                        ELSE <<c>>
        /\ child.role = IF c \notin DOMAIN spell_out_words /\ IsAlpha(c)
                        THEN "LETTER" ELSE ""

\* C21: a Word with interpret_as = spell-out gets one child Word per
\* character, in order: the word spell_out_words maps the character to, or
\* the character with role LETTER if it is a letter, or else the character;
\* the children are not locked, and a digit child is verbalized by the
\* number passes.
C21_SpelledByCharacter ==
    /\ pc = "transform_number" =>
          \A k \in SpelledBefore :
              /\ Len(edges[k]) = Len(nodes[k].text)
              /\ \A i \in 1..Len(edges[k]) :
                    SpellsCharacter(nodes[edges[k][i]], nodes[k].text[i], nodes[k])
    /\ pc = "verbalize_currency" =>
          \A k \in DOMAIN nodes :
              IsWord(nodes[k]) /\ nodes[k].interpret_as = "spell-out" =>
                  \A i \in 1..Len(edges[k]) :
                      LET c == edges[k][i]
                      IN  IsDigit(nodes[k].text[i]) =>
                              /\ nodes[c].interpret_as = "number"
                              /\ Len(edges[c]) = 1
                              /\ nodes[edges[c][1]].text
                                    = num2words(nodes[k].lang, FALSE, "cardinal")

\* a spelled-out "1.1" has been expanded and verbalized: digit, mapped
\* character, digit
C21_Witness ==
    /\ pc = "verbalize_currency"
    /\ \E k \in DOMAIN nodes :
          /\ IsWord(nodes[k])
          /\ nodes[k].interpret_as = "spell-out"
          /\ nodes[k].text = T_frac
          /\ Len(edges[k]) = 3
          /\ nodes[edges[k][2]].text = W_point
          /\ edges[edges[k][1]] # <<>>

\* a spelled-out Word with a letter has been expanded
SpelledLetter ==
    /\ pc = "transform_number"
    /\ \E k \in SpelledBefore : \E i \in 1..Len(edges[k]) :
          nodes[edges[k][i]].role = "LETTER"

(***************************************************************************)
(* Punctuation                                                             *)
(***************************************************************************)
\* the number of characters at the head of the text that are in glyphs
RECURSIVE HeadRun(_, _)
HeadRun(text, glyphs) ==
    IF text # <<>> /\ Head(text) \in glyphs THEN 1 + HeadRun(Tail(text), glyphs)
    ELSE 0

\* the same at the tail
TailRun(text, glyphs) == HeadRun(Reversed(text), glyphs)

\* the children the statement gives a Word with this text: its begin
\* punctuations, the residue if it is not empty, its end punctuations
Peeled(text, settings) ==
    LET m == HeadRun(text, settings.begin_punctuations)
        rest == Drop(text, m)
        n == TailRun(rest, settings.end_punctuations)
        residue == Take(rest, Len(rest) - n)
    IN  [i \in 1..m |-> <<"PunctuationWordNode", <<text[i]>> >>]
        \o (IF residue # <<>> THEN << <<"WordNode", residue>> >> ELSE <<>>)
        \o [i \in 1..n |->
               <<"PunctuationWordNode", <<rest[Len(rest) - n + i]>> >>]

\* the kinds and texts of the children of k
ChildrenOf(k) ==
    [i \in 1..Len(edges[k]) |-> <<nodes[edges[k][i]].kind, nodes[edges[k][i]].text>>]

\* the leaf Words that a punctuation pass, which has just run, looked at
PunctuatedBefore ==
    {k \in WordLeavesBefore :
        /\ pc \in {"minor_breaks", "initialism_2"}
        /\ before.nodes[k].interpret_as = ""}

\* C22: the punctuation pass gives a Word whose text is begin punctuations,
\* a residue and end punctuations the children: the begin punctuations as
\* PunctuationWords, the residue as a Word if it is not empty, the end
\* punctuations as PunctuationWords in their order; the children's texts
\* concatenate to the Word's text, and a Word with nothing to peel gets no
\* children.
C22_PunctuationPeeled ==
    \A k \in PunctuatedBefore :
        LET text == before.nodes[k].text
            settings == get_settings(before.nodes[k].lang)
            peeled == Peeled(text, settings)
        IN  IF \A i \in 1..Len(peeled) : peeled[i][1] = "WordNode"
            THEN edges[k] = <<>>
            ELSE /\ ChildrenOf(k) = peeled
                 /\ Concat([i \in 1..Len(edges[k]) |-> nodes[edges[k][i]].text])
                       = text

\* a Word with punctuation on both sides of a residue was peeled as stated
PeeledAround ==
    /\ \E k \in PunctuatedBefore :
          /\ Len(edges[k]) = 3
          /\ ChildrenOf(k) = Peeled(before.nodes[k].text,
                                    get_settings(before.nodes[k].lang))

\* a Word that is punctuation only was left a Word
PunctuationLeftAsWord ==
    /\ \E k \in PunctuatedBefore :
          /\ before.nodes[k].text = <<"\"">>
          /\ edges[k] = <<>>

(***************************************************************************)
(* Numbers                                                                 *)
(***************************************************************************)
\* the leaf Words that the number transform, which has just run, looked at
NumberedBefore == {k \in WordLeavesBefore : pc = "transform_currency"}

\* the number transform marked the Word
MarkedNumber(k) ==
    /\ nodes[k].interpret_as = "number"
    /\ nodes[k].number # None
    /\ nodes[k] # before.nodes[k]

\* C23: the number transform marks a Word as a number only if the Word had
\* no interpret_as or that of a number, is_maybe_number (has_digit) holds of
\* its text and parse_decimal succeeds; a Word whose text is_maybe_number
\* rejects is never marked and keeps the interpret_as it had.
C23_NumberOnlyIfMaybe ==
    \A k \in NumberedBefore :
        LET word == before.nodes[k]
        IN  /\ MarkedNumber(k) =>
                  /\ word.interpret_as \in {"", "number"}
                  /\ has_digit(word.text)
                  /\ parse_decimal(word.text, get_settings(word.lang).lang) # None
            /\ ~has_digit(word.text) => nodes[k] = word

\* a Word with a digit was marked as a number
NumberMarked ==
    \E k \in NumberedBefore : MarkedNumber(k) /\ has_digit(before.nodes[k].text)

\* a Word without a digit was marked as a number
MarkedWithoutDigit ==
    \E k \in NumberedBefore : MarkedNumber(k) /\ ~has_digit(before.nodes[k].text)

(***************************************************************************)
(* Tail text                                                               *)
(***************************************************************************)
\* the Words that the tree builder, which has just finished, made of a text
\* that follows a closing tag
TailWords ==
    {k \in DOMAIN nodes :
        /\ pc = "replacements"
        /\ IsWord(nodes[k])
        /\ nodes[k].src > 1
        /\ xml[nodes[k].src - 1].type = "close"}

\* the Word has the given say-as, voice and language, and no role
ScopedAs(word, say_as, voice, lang) ==
    /\ <<word.interpret_as, word.format>>
          = (IF say_as = <<>> THEN <<"", "">> ELSE say_as[1])
    /\ word.voice = (IF voice = <<>> THEN "" ELSE voice[1])
    /\ word.lang = lang
    /\ word.role = ""

\* C24: the Words made of the text that follows an element's closing tag
\* have the interpret_as and format, the voice, the role and the language
\* of the element that encloses that text, not those of the element that
\* was just closed.
C24_TailHasEnclosingScope ==
    \A k \in TailWords :
        LET p == nodes[k].src
        IN  ScopedAs(nodes[k], DeclaredSayAs(xml, p), DeclaredVoice(xml, p),
                     DeclaredLang(xml, p))

\* a tail Word has the scope of the element closed before it, which is not
\* that of the enclosing element
TailHasClosedScope ==
    \E k \in TailWords :
        LET p == nodes[k].src
        IN  /\ ScopedAs(nodes[k], DeclaredSayAs(xml, p - 2),
                        DeclaredVoice(xml, p - 2), DeclaredLang(xml, p - 2))
            /\ ~ScopedAs(nodes[k], DeclaredSayAs(xml, p), DeclaredVoice(xml, p),
                         DeclaredLang(xml, p))

(***************************************************************************)
(* Replacements                                                            *)
(***************************************************************************)
\* the non-empty parts of a text that whitespace separates
Fields(s) == SelectSeq(pattern_split(s, {" "}), LAMBDA part : part # <<>>)

\* the leaf Words in whose text_with_ws the replacements pass, which has
\* just run, substituted something, with the text after the substitutions
Substituted ==
    {k \in WordLeavesBefore :
        LET word == before.nodes[k]
            settings == get_settings(word.lang)
        IN  /\ pc = "punctuations_1"
            /\ word.interpret_as = ""
            /\ apply_replacements(settings.replacements, word.text_with_ws,
                                  FALSE).new_text # word.text_with_ws}

SubstitutedText(k) ==
    apply_replacements(get_settings(before.nodes[k].lang).replacements,
                       before.nodes[k].text_with_ws, FALSE).new_text

\* C25: a Word in whose text_with_ws the replacements pass substituted
\* something is replaced by the Words of the non-empty whitespace-separated
\* parts of the substituted text, none when that text is empty or only
\* whitespace, and is itself no longer a leaf.
C25_ReplacedByParts ==
    \A k \in Substituted :
        /\ ChildrenOf(k)
              = [i \in 1..Len(Fields(SubstitutedText(k))) |->
                    <<"WordNode", Fields(SubstitutedText(k))[i]>>]
        /\ k \notin WordLeaves

\* a substitution gave words, and they replaced the Word
ReplacedByWords ==
    \E k \in Substituted :
        /\ Fields(SubstitutedText(k)) # <<>>
        /\ edges[k] # <<>>
        /\ k \notin WordLeaves

\* a substitution left nothing, and the Word is still a leaf
SubstitutedAwayButLeaf ==
    \E k \in Substituted : Fields(SubstitutedText(k)) = <<>> /\ k \in WordLeaves

\* a word is emitted with a text that the replacements remove
EmittedThoughRemoved ==
    /\ pc = "emitted"
    /\ cfg.replacements # <<>>
    /\ \E i \in 1..Len(out) : \E j \in 1..Len(out[i].words) :
          out[i].words[j].text = T_hash

(***************************************************************************)
(* The place of the sentence breaker among the passes                      *)
(***************************************************************************)
\* the passes of __call__ after the loop, in the order of the source
PassOrder ==
    << "replacements", "punctuations_1", "minor_breaks", "abbreviations",
       "initialism_1", "major_breaks", "punctuations_2", "initialism_2",
       "break_sentences",
       "spell_out", "transform_number", "transform_currency", "transform_date",
       "verbalize_number", "verbalize_currency", "verbalize_date",
       "break_words", "ignore_non_words", "process_sentences" >>

PlaceOf(p) == CHOOSE i \in DOMAIN PassOrder : PassOrder[i] = p

\* the breaker has run
AfterBreaker ==
    \/ pc \in {"done", "emitted"}
    \/ pc \in SeqSet(PassOrder) /\ PlaceOf(pc) > PlaceOf("break_sentences")

\* the Sentence that key is below (NoNode: none)
RECURSIVE SentenceOf(_, _, _)
SentenceOf(N, E, key) ==
    IF IsSentence(N[key]) THEN key
    ELSE IF predecessors(E, key) = {} THEN NoNode
    ELSE SentenceOf(N, E, parent_of(E, key))

\* a step of a pass leads to the pass that follows it in PassOrder, the
\* breaker being the ninth, after the eight split passes (or ends the call
\* when a collaborator raises)
OrderKept ==
    pc \in SeqSet(PassOrder) /\ pc' # pc =>
        \/ pc' = "raised"
        \/ PlaceOf(pc) < Len(PassOrder) /\ pc' = PassOrder[PlaceOf(pc) + 1]
        \/ PlaceOf(pc) = Len(PassOrder) /\ pc' = "done"

\* a step after the breaker keeps every node, its class and its Sentence,
\* and every edge; a node that it adds is no Sentence and no BreakWord and
\* hangs below a Word that was a leaf, in that Word's Sentence
FixedAfterBreaker ==
    AfterBreaker =>
        /\ \A k \in DOMAIN nodes :
              /\ k \in DOMAIN nodes'
              /\ nodes'[k].kind = nodes[k].kind
              /\ SentenceOf(nodes', edges', k) = SentenceOf(nodes, edges, k)
              /\ edges[k] # <<>> => edges'[k] = edges[k]
        /\ \A k \in DOMAIN nodes' \ DOMAIN nodes :
              /\ nodes'[k].kind \notin {"SentenceNode", "BreakWordNode"}
              /\ \E u \in DOMAIN nodes :
                    /\ predecessors(edges', k) = {u}
                    /\ IsWord(nodes[u]) /\ edges[u] = <<>>
                    /\ SentenceOf(nodes', edges', k) = SentenceOf(nodes, edges, u)

\* C26: the sentence breaker runs after the eight split passes and before
\* spell-out, the transforms, the verbalizers and the word breaks; no pass
\* after it creates a Sentence or a BreakWord or moves an edge, and every
\* node attached by a later pass is below the Sentence of the Word it
\* expands: the sentences and each leaf's sentence are fixed once the
\* breaker has finished.
C26_SentencesFixedByBreaker == [][OrderKept /\ FixedAfterBreaker]_vars

\* a pass after the breaker has attached a node below a Sentence that the
\* breaker made
C26_Witness ==
    /\ AfterBreaker
    /\ \E s \in DOMAIN before.nodes \ DOMAIN built.nodes :
          /\ IsSentence(before.nodes[s])
          /\ \E k \in DOMAIN nodes \ DOMAIN before.nodes :
                SentenceOf(nodes, edges, k) = s

(***************************************************************************)
(* The voice of a derived Word                                             *)
(***************************************************************************)
\* the voice that the document declares for the text the emitted word was
\* derived from ("": none)
VoiceOfSource(word) ==
    LET declared == DeclaredVoice(xml, nodes[SourceOf(word.node)].src)
    IN  IF declared = <<>> THEN "" ELSE declared[1]

\* the emitted words that are leaf Words of the graph
EmittedWords(sent) ==
    {j \in 1..Len(sent.words) :
        ~sent.words[j].is_break /\ ~sent.words[j].is_punctuation}

\* C27: every leaf Word derived, by whatever passes, from text inside
\* <voice name=V> is emitted with the voice V, and a leaf Word derived from
\* text outside every <voice> is emitted with no voice, or with the voice of
\* its Sentence when the Sentence was given one.
C27_VoiceInherited ==
    pc = "emitted" =>
        \A i \in 1..Len(out) : \A j \in EmittedWords(out[i]) :
            LET word == out[i].words[j]
            IN  IF VoiceOfSource(word) # ""
                THEN word.voice = VoiceOfSource(word)
                ELSE word.voice = "" \/ word.voice = out[i].voice

\* a Word built with the voice of its <voice> element was verbalized, and
\* its child is emitted with no voice
VoiceLostByChild ==
    /\ pc = "emitted"
    /\ \E i \in 1..Len(out) : \E j \in EmittedWords(out[i]) :
          LET word == out[i].words[j]
          IN  /\ SourceOf(word.node) # word.node
              /\ nodes[SourceOf(word.node)].voice = VoiceOfSource(word)
              /\ VoiceOfSource(word) # ""
              /\ word.voice = ""

(***************************************************************************)
(* The tagger of a Sentence's language                                     *)
(***************************************************************************)
\* the Sentences with a Word leaf
SentencesWithWords ==
    {k \in DOMAIN nodes : IsSentence(nodes[k]) /\ SentenceWords(k) # <<>>}

\* the tag that the tagger of the language gives, None when the settings of
\* the language have no tagger
TagOfLanguage(lang) ==
    IF get_settings(lang).get_parts_of_speech
    THEN pos_tag(get_settings_name(Cache, lang))
    ELSE None

\* C28: with pos=true, the words of a Sentence are tagged by the tagger in
\* the settings of the Sentence's own language, and the words of a Sentence
\* whose language has no tagger get no pos.
C28_TaggerOfOwnLanguage ==
    pc = "done" /\ args.pos =>
        \A k \in SentencesWithWords : \A j \in 1..Len(SentenceWords(k)) :
            nodes[SentenceWords(k)[j]].pos = TagOfLanguage(nodes[k].lang)

\* the words of a Sentence whose language has a tagger were not tagged,
\* the Sentence after it being of a language without one
NotTaggedByOwnLanguage ==
    /\ pc = "done" /\ args.pos
    /\ \E k \in SentencesWithWords : \E j \in 1..Len(SentenceWords(k)) :
          /\ TagOfLanguage(nodes[k].lang) # None
          /\ nodes[SentenceWords(k)[j]].pos = None
          /\ \E n \in DOMAIN nodes :
                IsSentence(nodes[n]) /\ n > k /\ TagOfLanguage(nodes[n].lang) = None

\* the words of a Sentence were tagged by the tagger of its language
TaggedByOwnLanguage ==
    /\ pc = "done" /\ args.pos
    /\ cfg.given # BaseSettings.given
    /\ \E k \in SentencesWithWords : \E j \in 1..Len(SentenceWords(k)) :
          /\ TagOfLanguage(nodes[k].lang) # None
          /\ nodes[SentenceWords(k)[j]].pos = TagOfLanguage(nodes[k].lang)

(***************************************************************************)
(* The Sentences that the breaker makes                                    *)
(***************************************************************************)
\* the Sentences that the tree builder did not make
BrokenOff == {k \in DOMAIN nodes \ DOMAIN built.nodes : IsSentence(nodes[k])}

\* the Sentence that k was split from: the breaker puts the new Sentence
\* right after it among the edges of the paragraph
SplitFrom(k) ==
    LET p_edges == edges[parent_of(edges, k)]
    IN  p_edges[IndexOf(p_edges, k) - 1]

\* the Sentence of the tree builder that k comes from
RECURSIVE OriginalOf(_)
OriginalOf(k) == IF k \in BrokenOff THEN OriginalOf(SplitFrom(k)) ELSE k

\* C29: a Sentence that the breaker makes has the lang and the voice of the
\* Sentence it was split from, and all Sentences of the output that come
\* from one Sentence of the tree builder report the same lang.
C29_BrokenOffLikeOriginal ==
    /\ pc = "spell_out" =>
          \A k \in BrokenOff :
              /\ nodes[k].lang = nodes[SplitFrom(k)].lang
              /\ nodes[k].voice = nodes[SplitFrom(k)].voice
    /\ pc = "emitted" =>
          \A i, j \in 1..Len(out) :
              OriginalOf(out[i].node) = OriginalOf(out[j].node)
                 => out[i].lang = out[j].lang

\* two Sentences of the output come from one Sentence and report different
\* languages
LangLostBySplit ==
    /\ pc = "emitted"
    /\ \E i, j \in 1..Len(out) :
          /\ OriginalOf(out[i].node) = OriginalOf(out[j].node)
          /\ out[i].lang = default_lang
          /\ out[j].lang = ""

(***************************************************************************)
(* The graph is a tree                                                     *)
(***************************************************************************)
\* the tree builder has returned the graph and its root
Returned == pc \in SeqSet(PassOrder) \cup {"done", "emitted"}

\* no node has two edges to the same node
NoParallelEdges ==
    \A u \in DOMAIN edges : \A i, j \in 1..Len(edges[u]) :
        edges[u][i] = edges[u][j] => i = j

\* the graph is a tree below root whose nodes carry their keys
IsTree ==
    LET reached == Descendants(edges, root)
    IN  /\ root \in DOMAIN nodes
        /\ DOMAIN edges = DOMAIN nodes
        /\ predecessors(edges, root) = {}
        /\ NoParallelEdges
        /\ \A k \in DOMAIN nodes :
              /\ nodes[k].node = k
              /\ k # root => Cardinality(predecessors(edges, k)) = 1
              /\ k \in reached

\* the graph has every node that the tree builder returned and every node
\* that it had before the last pass
NoNodeDeleted ==
    /\ DOMAIN built.nodes \subseteq DOMAIN nodes
    /\ DOMAIN before.nodes \subseteq DOMAIN nodes

=============================================================================
